---- MODULE Spec2Model ----
(***************************************************************************)
(* Model of the foursquare-mcp OAuth2 authorization-code flow              *)
(* (src/auth.ts: authenticate) and of the token file it writes             *)
(* (src/token.ts: TokenManager, found at lines 304-415 of src/src/api.ts). *)
(*                                                                         *)
(* Node.js runs the program on one event loop.  Every action below is one  *)
(* run-to-completion piece of JavaScript: the synchronous part of a call,  *)
(* or the continuation after an `await`, or a timer callback.  Callbacks   *)
(* queued with process.nextTick (the 'listening' and 'error' events of     *)
(* server.listen) run before any I/O callback or timer, which the guard    *)
(* NoPendingTick expresses.                                                *)
(*                                                                         *)
(* server.close() is modelled as: the listening socket is released at once *)
(* and no further request is dispatched to the handlers; requests already  *)
(* being handled run on.                                                   *)
(***************************************************************************)
EXTENDS Integers, Sequences, FiniteSets, TLC

\* ------------------------------------------------------------- bounds
\* number of calls of authenticate() in one process
NumFlows == 2
\* number of HTTP requests that reach GET /callback during one call
MaxRequests == 2

Flows == 1..NumFlows
\* number of calls of tokenManager / foursquareAPI methods that are in progress at once
NumTasks == 2

Tasks == 1..NumTasks

\* ------------------------------------------------------------- program constants
\* setTimeout(..., 5 * 60 * 1000)
TIMEOUT_MS == 300000
\* setTimeout(() => server.close(), 1000)
CLOSE_DELAY_MS == 1000
\* fs.writeFile(..., { mode: 0o600 })
MODE_0600 == 384
\* z.number().optional().default(50), `options.limit || 50`
DEFAULT_LIMIT == 50

\* ------------------------------------------------------------- JavaScript values
\* the value `undefined`
None == "undefined"
\* ToBoolean on a string-or-undefined value: `if (x)`, `!x`, `a || b`
Truthy(v) == v \notin {None, ""}
\* `a || b`
OrElse(a, b) == IF Truthy(a) THEN a ELSE b

\* process.env (neither variable set, or both) and the values of the arguments
Envs ==
    {[FOURSQUARE_CLIENT_ID |-> None, FOURSQUARE_CLIENT_SECRET |-> None],
     [FOURSQUARE_CLIENT_ID |-> "configured", FOURSQUARE_CLIENT_SECRET |-> "configured"]}
ArgValues == {None, "", "configured"}
\* values of req.query.code and req.query.error
QueryCodes == {None, "abc123"}
QueryErrors == {None, "", "access_denied"}
Queries == [code : QueryCodes, error : QueryErrors] \ {[code |-> None, error |-> ""]}
\* JSON bodies the token endpoint may answer with
\* (the provider issues a fresh access token at every exchange: the n-th request
\* of the run is answered, if with a token, with IssuedToken(n))
AccessTokens == <<"tok_xyz", "tok_2", "tok_3", "tok_4">>
IssuedToken(n) == AccessTokens[n]
TokenDatas(n) == [error : {None, "", "invalid_grant"}, access_token : {None, "", IssuedToken(n)}]
\* the token-exchange request a handler sent: its number in the run, or 0
RequestOf(h) == IF h.requested > 0 THEN h.requested ELSE 1

\* ------------------------------------------------------------- config.ts
\* getEnvConfig(): `process.env.X || ''`
getEnvConfig(e) ==
    [clientId |-> OrElse(e.FOURSQUARE_CLIENT_ID, ""),
     clientSecret |-> OrElse(e.FOURSQUARE_CLIENT_SECRET, "")]

\* A path is the sequence of its segments; an absolute path starts with its root.
\* path.join(a, b): the segments of a, then those of b (a zero-length argument
\* adds nothing)
pathJoin(a, b) == a \o b
\* a variable of process.env that holds a path: unset, or set to a string (which
\* may be the empty string, the path of no segments)
EnvUnset == [set |-> FALSE, value |-> <<>>]
EnvSet(path) == [set |-> TRUE, value |-> path]
\* ToBoolean on such a variable: `if (process.env.X)`, `process.env.X || y`
EnvTruthy(v) == v.set /\ v.value # <<>>
\* process.platform, os.homedir() and the two variables getConfigDir() reads
Platforms == {"darwin", "win32", "linux", "freebsd"}
HomeDirs == {<<"/", "home", "u">>, <<"C:", "Users", "u">>}
XdgConfigHomes == {EnvUnset, EnvSet(<<>>), EnvSet(<<"/", "xdg">>)}
AppDatas == {EnvUnset, EnvSet(<<>>), EnvSet(<<"D:", "AppData">>)}
SysEnvs == [platform : Platforms, home : HomeDirs, XDG_CONFIG_HOME : XdgConfigHomes,
            APPDATA : AppDatas]
\* the process of the other specifications: Linux, neither variable set
DefaultSysEnv ==
    [platform |-> "linux", home |-> <<"/", "home", "u">>, XDG_CONFIG_HOME |-> EnvUnset,
     APPDATA |-> EnvUnset]

\* (mutant) XDG_CONFIG_HOME is looked at in the default branch of the switch only
getConfigDir_PlatformFirst(e) ==
    IF e.platform = "darwin"
    THEN pathJoin(e.home, <<"Library", "Application Support", "foursquare-mcp">>)
    ELSE IF e.platform = "win32"
    THEN pathJoin(IF EnvTruthy(e.APPDATA) THEN e.APPDATA.value
                  ELSE pathJoin(e.home, <<"AppData", "Roaming">>),
                  <<"foursquare-mcp">>)
    ELSE IF EnvTruthy(e.XDG_CONFIG_HOME)
    THEN pathJoin(e.XDG_CONFIG_HOME.value, <<"foursquare-mcp">>)
    ELSE pathJoin(e.home, <<".config", "foursquare-mcp">>)

\* getConfigDir()
getConfigDir(e) ==
    IF EnvTruthy(e.XDG_CONFIG_HOME)
    THEN pathJoin(e.XDG_CONFIG_HOME.value, <<"foursquare-mcp">>)
    ELSE IF e.platform = "darwin"
    THEN pathJoin(e.home, <<"Library", "Application Support", "foursquare-mcp">>)
    ELSE IF e.platform = "win32"
    THEN pathJoin(IF EnvTruthy(e.APPDATA) THEN e.APPDATA.value
                  ELSE pathJoin(e.home, <<"AppData", "Roaming">>),
                  <<"foursquare-mcp">>)
    ELSE pathJoin(e.home, <<".config", "foursquare-mcp">>)

\* ------------------------------------------------------------- token.ts
\* The token file holds text.  The text is a sequence of lexemes: an opening
\* brace, one entry per defined property of the object, a closing brace.
Lexeme(k, s, n) == [key |-> k, str |-> s, num |-> n]
OpenBrace == Lexeme("{", "", 0)
CloseBrace == Lexeme("}", "", 0)
NoFile == [exists |-> FALSE, data |-> <<>>]
FileWith(text) == [exists |-> TRUE, data |-> text]

\* (mutant) the text is built from the two required properties only
JSONstringify_RequiredOnly(token) ==
    <<OpenBrace,
      Lexeme("access_token", token.access_token, 0),
      Lexeme("created_at", "", token.created_at),
      CloseBrace>>

\* JSON.stringify(token, null, 2): properties whose value is undefined are left out
JSONstringify(token) ==
    <<OpenBrace,
      Lexeme("access_token", token.access_token, 0),
      Lexeme("created_at", "", token.created_at)>>
    \o (IF "expires_in" \in DOMAIN token
        THEN <<Lexeme("expires_in", "", token.expires_in)>> ELSE <<>>)
    \o <<CloseBrace>>

\* whether JSON.parse(text) succeeds (it throws a SyntaxError otherwise)
JSONparses(text) ==
    /\ Len(text) >= 2
    /\ text[1] = OpenBrace
    /\ text[Len(text)] = CloseBrace
    /\ \A i \in 2..(Len(text) - 1) : text[i].key \notin {"{", "}"}

\* JSON.parse(text) of a text that parses
JSONparse(text) ==
    LET keys == {text[i].key : i \in 2..(Len(text) - 1)}
        at(k) == text[CHOOSE i \in 2..(Len(text) - 1) :
                        /\ text[i].key = k
                        /\ \A j \in (i + 1)..(Len(text) - 1) : text[j].key # k]
    IN [k \in keys |-> IF k = "access_token" THEN at(k).str ELSE at(k).num]

\* (mutant) the ENOENT test is missing: a missing file is an error like any other
loadToken_RethrowsENOENT(file) ==
    IF ~file.exists THEN [kind |-> "throws"]
    ELSE IF ~JSONparses(file.data) THEN [kind |-> "throws"]
    ELSE [kind |-> "token", token |-> JSONparse(file.data)]

\* (mutant) every error is swallowed into null
loadToken_SwallowsErrors(file) ==
    IF ~file.exists THEN [kind |-> "null"]
    ELSE IF ~JSONparses(file.data) THEN [kind |-> "null"]
    ELSE [kind |-> "token", token |-> JSONparse(file.data)]

\* TokenManager.loadToken(): null (absent), a thrown error, or the parsed record
loadToken(file) ==
    IF ~file.exists THEN [kind |-> "null"]
    ELSE IF ~JSONparses(file.data) THEN [kind |-> "throws"]
    ELSE [kind |-> "token", token |-> JSONparse(file.data)]

\* the TokenInfo records that callers save: created_at and expires_in (optional)
\* take the value 0 and another value
CreatedAts == {0, 1000}
ExpiresIns == {0, 1}
TokenOf(c) == IF c = 0 THEN "S1" ELSE "S2"
TokenInfos ==
    {[access_token |-> TokenOf(c), created_at |-> c] : c \in CreatedAts}
    \cup {[access_token |-> TokenOf(c), created_at |-> c, expires_in |-> e] :
              c \in CreatedAts, e \in ExpiresIns}
\* the permission bits a token file has that was not created by saveToken (copied
\* or restored by the user, written by an editor): 0600 or 0644
FileModes == {MODE_0600, 420}
\* open(path, O_WRONLY | O_CREAT | O_TRUNC, 0o600): the mode argument is used when
\* the call creates the file; a file that exists keeps its permission bits
ModeAfterOpen(file, mode) == IF file.exists THEN mode ELSE MODE_0600
\* a token file that does not parse: the text stops after the opening brace
CorruptFile == FileWith(<<OpenBrace>>)
\* the values Date.now() takes while the token manager and the API client are called
Times == {0, 1000, 2000, 3000}

\* (mutant) a record without expires_in expires one second after it was created
isTokenValid_DefaultLifetime(loaded, t) ==
    IF loaded.kind = "null" THEN FALSE
    ELSE LET token == loaded.token
             expires_in == IF "expires_in" \in DOMAIN token THEN token.expires_in ELSE 1
         IN IF expires_in # 0 /\ token.created_at # 0
            THEN ~(t > token.created_at + expires_in * 1000)
            ELSE TRUE

\* TokenManager.isTokenValid() after loadToken() returned `loaded`, at Date.now() = t:
\* `token.expires_in && token.created_at` is false for undefined and for 0
isTokenValid(loaded, t) ==
    IF loaded.kind = "null" THEN FALSE
    ELSE LET token == loaded.token
         IN IF "expires_in" \in DOMAIN token /\ token.expires_in # 0 /\ token.created_at # 0
            THEN ~(t > token.created_at + token.expires_in * 1000)
            ELSE TRUE

\* ------------------------------------------------------------- api.ts
\* the argument of setToken(token?)
ExplicitTokens == {None, "", "E"}
\* process.env.FOURSQUARE_ACCESS_TOKEN: unset, or set
EnvTokens == {None, "V"}
\* what the request to /users/self/checkins ends in: fetch rejects, a status that
\* is not OK, an OK status with meta.code other than 200, an OK status with meta.code 200
Responses == {"transport_error", "http_error", "meta_error", "ok"}
\* the `limit` argument of the get-user-checkins tool: left out, or a number
NoLimit == [given |-> FALSE, value |-> 0]
Limit(n) == [given |-> TRUE, value |-> n]
Limits == {NoLimit} \cup {Limit(n) : n \in {0, 1, 50, 100, 101, 500}}
\* the tool's input schema: z.number().optional().default(50)
toolLimit(limit) == IF limit.given THEN limit.value ELSE DEFAULT_LIMIT
\* getUserCheckins: `limit: (options.limit || 50).toString()`
limitParam(n) == IF n # 0 THEN n ELSE DEFAULT_LIMIT
\* how a call of a method ended
NoResult == [kind |-> "none"]
Returned(v) == [kind |-> "returned", value |-> v]
Threw(e) == [kind |-> "threw", error |-> e]

\* ------------------------------------------------------------- auth.ts
\* (mutant) the call is refused only when both values are missing
MissingCredentials_Both(id, secret) == ~Truthy(id) /\ ~Truthy(secret)

\* `if (!finalClientId || !finalClientSecret) throw`
MissingCredentials(id, secret) == ~Truthy(id) \/ ~Truthy(secret)

\* (mutant) the code is looked at before the error
CallbackBranch_CodeFirst(q) ==
    IF Truthy(q.code) THEN "exchange"
    ELSE IF Truthy(q.error) THEN "error"
    ELSE "nocode"

\* (mutant) the `if (!code)` test is missing
CallbackBranch_NoCodeCheck(q) ==
    IF Truthy(q.error) THEN "error" ELSE "exchange"

\* the three branches of the callback handler, in the order the code tests them
CallbackBranch(q) ==
    IF Truthy(q.error) THEN "error"
    ELSE IF ~Truthy(q.code) THEN "nocode"
    ELSE "exchange"

\* (mutant) the `if (tokenData.error)` test is missing
TokenDataError_NoErrorCheck(tokenData) ==
    IF ~Truthy(tokenData.access_token) THEN [type |-> "no_access_token", detail |-> ""]
    ELSE [type |-> "none", detail |-> ""]

\* the checks on the token endpoint's JSON body: which Error, if any, is thrown
TokenDataError(tokenData) ==
    IF Truthy(tokenData.error) THEN [type |-> "token_error", detail |-> tokenData.error]
    ELSE IF ~Truthy(tokenData.access_token) THEN [type |-> "no_access_token", detail |-> ""]
    ELSE [type |-> "none", detail |-> ""]

\* (mutant) the record is given a lifetime of one second
NewTokenInfo_WithExpiry(tokenData, t) ==
    [access_token |-> tokenData.access_token, created_at |-> t, expires_in |-> 1]

\* (mutant) the record is built from another property of the response
NewTokenInfo_ErrorField(tokenData, t) == [access_token |-> tokenData.error, created_at |-> t]

\* `const tokenInfo = { access_token: tokenData.access_token, created_at: Date.now() }`
NewTokenInfo(tokenData, t) == [access_token |-> tokenData.access_token, created_at |-> t]

\* the promise returned by authenticate(): pending, resolved or rejected
Pending == [kind |-> "pending"]
Resolved(tokenInfo) == [kind |-> "resolved", value |-> tokenInfo]
Rejected(type, detail) == [kind |-> "rejected", error |-> [type |-> type, detail |-> detail]]
\* (mutant) every call of resolve or reject replaces the outcome
Settle_Overwrites(promise, result) == result

\* resolve(v) / reject(e): only the first call settles a promise
Settle(promise, result) == IF promise = Pending THEN result ELSE promise
\* (mutant) the timeout callback closes the server and does not reject
OnTimeout_NoReject(promise) == promise

\* the timeout callback's `reject(new Error(...))`
OnTimeout(promise) == Settle(promise, Rejected("timeout", ""))

VARIABLES
    env,         \* process.env: FOURSQUARE_CLIENT_ID, FOURSQUARE_CLIENT_SECRET
    now,         \* Date.now(), in milliseconds since the process started
    portOwner,   \* the flow whose server is bound to OAUTH_CONFIG.PORT, or 0
    tokenFile,   \* the file at getTokenPath()
    pc,          \* per flow: where the call of authenticate() stands
    creds,       \* per flow: finalClientId, finalClientSecret
    listening,   \* per flow: its server accepts requests
    outcome,     \* per flow: the promise authenticate() returned
    timer,       \* per flow: the 5-minute timer
    opened,      \* per flow: calls of open(authUrl) and whether the last one threw
    handlers,    \* per flow: the runs of the GET /callback handler, in order of arrival
    fileAtStart, \* per flow (history): the token file when authenticate() was called
    settledAt,   \* per flow (history): Date.now() when the promise was settled, or -1
    envAccessToken,  \* process.env.FOURSQUARE_ACCESS_TOKEN
    accessToken,     \* foursquareAPI.accessToken, the token the singleton holds
    accessTokenFrom, \* (history) where accessToken came from: an argument or the token file
    tokenIno,        \* the inode the token path names, or 0
    task,            \* per task: the call of a tokenManager / foursquareAPI method it runs
    lastStoreOp,     \* (history) the last change made to the token file by a task
    tokenMode,       \* the permission bits of the file the token path names, or 0
    sysEnv,          \* process.platform, os.homedir(), XDG_CONFIG_HOME, APPDATA
    applied          \* the last call of getConfigDir() or of the get-user-checkins tool

vars == <<env, now, portOwner, tokenFile, pc, creds, listening, outcome, timer, opened,
          handlers, fileAtStart, settledAt, envAccessToken, accessToken, accessTokenFrom,
          tokenIno, task, lastStoreOp, tokenMode, sysEnv, applied>>

\* the state of the token manager's and the API client's callers
callerVars == <<envAccessToken, accessToken, accessTokenFrom, tokenIno, task, lastStoreOp>>
apiVars == <<callerVars, tokenMode>>
\* the state of the calls of getConfigDir() and of the get-user-checkins tool
pureVars == <<sysEnv, applied>>
\* the state of authenticate()
authVars == <<env, portOwner, pc, creds, listening, outcome, timer, opened, handlers,
              fileAtStart, settledAt>>

\* ------------------------------------------------------------- state
\* a record an earlier run of the program may have left in the token file
OldToken == [access_token |-> "tok_old", created_at |-> 0, expires_in |-> 3600]
NoTokenInfo == [access_token |-> "", created_at |-> 0]
NoError == [type |-> "none", detail |-> ""]
Unset == [state |-> "unset", at |-> 0]
Armed(t) == [state |-> "armed", at |-> t]
Fired(t) == [state |-> "fired", at |-> t]

\* a run of the callback handler that has just received its request
NewHandler(q) ==
    [query |-> q, stage |-> "received", requested |-> 0, tokenInfo |-> NoTokenInfo,
     wrote |-> FALSE, error |-> NoError, closeTimer |-> Unset]

\* a call of a method of tokenManager or foursquareAPI: the method, the await it is
\* at, its arguments, the bearer token of its request, how it ended, the file
\* descriptor it holds, and (history) whether the token file changed during the call
NewTask(op, stage) ==
    [op |-> op, stage |-> stage, token |-> NoTokenInfo, explicit |-> None, bearer |-> None,
     result |-> NoResult, fd |-> 0, changed |-> FALSE]
IdleTask == NewTask("none", "idle")
\* (history) no task has changed the token file yet
NoStoreOp == [op |-> "none", old |-> NoFile, arg |-> NoTokenInfo]
\* neither getConfigDir() nor the get-user-checkins tool has been called
NoCall == [fn |-> "none"]

Init ==
    /\ env \in Envs
    /\ now = 0
    /\ portOwner = 0
    /\ tokenFile \in {NoFile, FileWith(JSONstringify(OldToken))}
    /\ pc = [f \in Flows |-> "idle"]
    /\ creds = [f \in Flows |-> [clientId |-> "", clientSecret |-> ""]]
    /\ listening = [f \in Flows |-> FALSE]
    /\ outcome = [f \in Flows |-> Pending]
    /\ timer = [f \in Flows |-> Unset]
    /\ opened = [f \in Flows |-> [calls |-> 0, threw |-> FALSE]]
    /\ handlers = [f \in Flows |-> <<>>]
    /\ fileAtStart = [f \in Flows |-> NoFile]
    /\ settledAt = [f \in Flows |-> -1]
    /\ envAccessToken = None
    /\ accessToken = None
    /\ accessTokenFrom = "none"
    /\ tokenIno = 0
    /\ task = [t \in Tasks |-> IdleTask]
    /\ lastStoreOp = NoStoreOp
    /\ tokenMode = (IF tokenFile.exists THEN MODE_0600 ELSE 0)
    /\ sysEnv = DefaultSysEnv
    /\ applied = NoCall

\* callbacks queued with process.nextTick run before anything else
NoPendingTick == \A f \in Flows : pc[f] \notin {"listen_tick", "error_tick"}

RECURSIVE SumLen(_, _)
SumLen(h, S) ==
    IF S = {} THEN 0
    ELSE LET f == CHOOSE x \in S : TRUE IN Len(h[f]) + SumLen(h, S \ {f})
\* the number of requests that have reached a callback endpoint
TotalRequests == SumLen(handlers, Flows)

RECURSIVE SumRequested(_, _)
SumRequested(h, S) ==
    IF S = {} THEN 0
    ELSE LET f == CHOOSE x \in S : TRUE
         IN Cardinality({i \in DOMAIN h[f] : h[f][i].requested > 0}) + SumRequested(h, S \ {f})
\* the number of token-exchange requests sent so far, by all flows
TotalExchanges == SumRequested(handlers, Flows)

\* (mutant) server.close() of any server releases the port
PortAfterClose_AnyServer(f) == 0

\* (mutant) server.close() is not called: the port stays bound
PortAfterClose_Leak(f) == portOwner

\* server.close(): the port is released if this server holds it
PortAfterClose(f) == IF portOwner = f THEN 0 ELSE portOwner

\* resolve(v) or reject(e) called for flow f's promise, with the time it settles (history)
SettleFlow(f, result) ==
    /\ outcome' = [outcome EXCEPT ![f] = Settle(@, result)]
    /\ settledAt' = [settledAt EXCEPT ![f] = IF outcome[f] = Pending THEN now ELSE @]

\* (mutant) the failure is reported without closing the server
CloseServer_StaysOpen(f) == UNCHANGED <<listening, portOwner>>

\* server.close() of flow f
CloseServer(f) ==
    /\ listening' = [listening EXCEPT ![f] = FALSE]
    /\ portOwner' = PortAfterClose(f)

\* ------------------------------------------------------------- authenticate()
\* the synchronous part of authenticate(clientId, clientSecret); the calls are
\* numbered in the order they are made
StartFlow(f, clientId, clientSecret) ==
    /\ pc[f] = "idle"
    /\ \A g \in Flows : g < f => pc[g] # "idle"
    /\ NoPendingTick
    /\ LET config == getEnvConfig(env)
           finalClientId == OrElse(clientId, config.clientId)
           finalClientSecret == OrElse(clientSecret, config.clientSecret)
       IN /\ creds' = [creds EXCEPT ![f] = [clientId |-> finalClientId,
                                            clientSecret |-> finalClientSecret]]
          /\ IF MissingCredentials(finalClientId, finalClientSecret)
             THEN /\ pc' = [pc EXCEPT ![f] = "precondition_failed"]
                  /\ SettleFlow(f, Rejected("precondition", ""))
                  /\ UNCHANGED <<portOwner, listening, timer>>
             ELSE /\ UNCHANGED <<outcome, settledAt>>
                  /\ timer' = [timer EXCEPT ![f] = Armed(now + TIMEOUT_MS)]
                  /\ IF portOwner = 0
                     THEN /\ portOwner' = f
                          /\ listening' = [listening EXCEPT ![f] = TRUE]
                          /\ pc' = [pc EXCEPT ![f] = "listen_tick"]
                     ELSE /\ pc' = [pc EXCEPT ![f] = "error_tick"]
                          /\ UNCHANGED <<portOwner, listening>>
    /\ fileAtStart' = [fileAtStart EXCEPT ![f] = tokenFile]
    /\ UNCHANGED <<env, now, tokenFile, opened, handlers>>

\* authenticate() is called
Start(f, clientId, clientSecret) ==
    /\ StartFlow(f, clientId, clientSecret)
    /\ UNCHANGED apiVars
    /\ UNCHANGED pureVars

\* (mutant) no try/catch around open(authUrl): a failed launch ends the flow
ListenCallback_Fatal(f, threw) ==
    /\ pc[f] = "listen_tick"
    /\ pc' = [pc EXCEPT ![f] = "serving"]
    /\ opened' = [opened EXCEPT ![f] = [calls |-> @.calls + 1, threw |-> threw]]
    /\ IF threw
       THEN CloseServer(f) /\ SettleFlow(f, Rejected("browser", ""))
       ELSE UNCHANGED <<portOwner, listening, outcome, settledAt>>
    /\ UNCHANGED <<env, now, tokenFile, creds, timer, handlers, fileAtStart>>
    /\ UNCHANGED apiVars
    /\ UNCHANGED pureVars

\* the callback of app.listen: open(authUrl) in try/catch
ListenCallback(f, threw) ==
    /\ pc[f] = "listen_tick"
    /\ pc' = [pc EXCEPT ![f] = "serving"]
    /\ opened' = [opened EXCEPT ![f] = [calls |-> @.calls + 1, threw |-> threw]]
    /\ UNCHANGED <<env, now, portOwner, tokenFile, creds, listening, outcome, timer,
                   handlers, fileAtStart, settledAt>>
    /\ UNCHANGED apiVars
    /\ UNCHANGED pureVars

\* (mutant) the browser is launched when the bind has failed, too
ServerError_OpensBrowser(f) ==
    /\ pc[f] = "error_tick"
    /\ pc' = [pc EXCEPT ![f] = "bind_failed"]
    /\ opened' = [opened EXCEPT ![f] = [calls |-> @.calls + 1, threw |-> FALSE]]
    /\ SettleFlow(f, Rejected("address_in_use", ""))
    /\ UNCHANGED <<env, now, portOwner, tokenFile, creds, listening, timer,
                   handlers, fileAtStart>>
    /\ UNCHANGED apiVars
    /\ UNCHANGED pureVars

\* (mutant) no 'error' listener: the bind failure is not reported
ServerError_Silent(f) ==
    /\ pc[f] = "error_tick"
    /\ pc' = [pc EXCEPT ![f] = "bind_failed"]
    /\ UNCHANGED <<env, now, portOwner, tokenFile, creds, listening, outcome, timer, opened,
                   handlers, fileAtStart, settledAt>>
    /\ UNCHANGED apiVars
    /\ UNCHANGED pureVars

\* server.on('error', ...) with error.code === 'EADDRINUSE'
ServerError(f) ==
    /\ pc[f] = "error_tick"
    /\ pc' = [pc EXCEPT ![f] = "bind_failed"]
    /\ SettleFlow(f, Rejected("address_in_use", ""))
    /\ UNCHANGED <<env, now, portOwner, tokenFile, creds, listening, timer, opened,
                   handlers, fileAtStart>>
    /\ UNCHANGED apiVars
    /\ UNCHANGED pureVars

\* the catch branch: error page, server.close(), reject(error)
FailHandler(f, i, err) ==
    /\ handlers' = [handlers EXCEPT ![f][i].stage = "failed", ![f][i].error = err]
    /\ CloseServer(f)
    /\ SettleFlow(f, Rejected(err.type, err.detail))

\* GET /callback arrives: the handler runs up to its first await
Callback(f, q) ==
    /\ pc[f] = "serving"
    /\ listening[f]
    /\ NoPendingTick
    /\ LET branch == CallbackBranch(q)
       IN \/ /\ branch = "error"
             /\ handlers' = [handlers EXCEPT ![f] = Append(@,
                    [NewHandler(q) EXCEPT !.stage = "failed",
                                          !.error = [type |-> "provider", detail |-> q.error]])]
             /\ CloseServer(f)
             /\ SettleFlow(f, Rejected("provider", q.error))
          \/ /\ branch = "nocode"
             /\ handlers' = [handlers EXCEPT ![f] = Append(@,
                    [NewHandler(q) EXCEPT !.stage = "failed",
                                          !.error = [type |-> "missing_code", detail |-> ""]])]
             /\ CloseServer(f)
             /\ SettleFlow(f, Rejected("missing_code", ""))
          \/ /\ branch = "exchange"
             /\ handlers' = [handlers EXCEPT ![f] = Append(@,
                    [NewHandler(q) EXCEPT !.stage = "exchanging",
                                          !.requested = TotalExchanges + 1])]
             /\ UNCHANGED <<listening, portOwner, outcome, settledAt>>
    /\ UNCHANGED <<env, now, tokenFile, pc, creds, timer, opened, fileAtStart>>
    /\ UNCHANGED apiVars
    /\ UNCHANGED pureVars

\* the token endpoint answers with a JSON body
ExchangeReturn(f, i, tokenData) ==
    /\ i \in DOMAIN handlers[f]
    /\ handlers[f][i].stage = "exchanging"
    /\ NoPendingTick
    /\ LET err == TokenDataError(tokenData)
       IN IF err.type # "none"
          THEN FailHandler(f, i, err)
          ELSE /\ handlers' = [handlers EXCEPT ![f][i].stage = "saving",
                                   ![f][i].tokenInfo = NewTokenInfo(tokenData, now)]
               /\ UNCHANGED <<listening, portOwner, outcome, settledAt>>
    /\ UNCHANGED <<env, now, tokenFile, pc, creds, timer, opened, fileAtStart>>
    /\ UNCHANGED apiVars
    /\ UNCHANGED pureVars

\* the token endpoint answers the request of run i of the handler
ExchangeAnswered(f, i) ==
    /\ i \in DOMAIN handlers[f]
    /\ \E tokenData \in TokenDatas(RequestOf(handlers[f][i])) : ExchangeReturn(f, i, tokenData)

\* fetch() rejects, or response.json() throws
ExchangeThrows(f, i) ==
    /\ i \in DOMAIN handlers[f]
    /\ handlers[f][i].stage = "exchanging"
    /\ NoPendingTick
    /\ FailHandler(f, i, [type |-> "transport", detail |-> ""])
    /\ UNCHANGED <<env, now, tokenFile, pc, creds, timer, opened, fileAtStart>>
    /\ UNCHANGED apiVars
    /\ UNCHANGED pureVars

\* saveToken: fs.writeFile opens the file with O_CREAT | O_TRUNC
FsOpen(f, i) ==
    /\ i \in DOMAIN handlers[f]
    /\ handlers[f][i].stage = "saving"
    /\ NoPendingTick
    /\ tokenFile' = FileWith(<<>>)
    /\ tokenMode' = ModeAfterOpen(tokenFile, tokenMode)
    /\ handlers' = [handlers EXCEPT ![f][i].stage = "writing", ![f][i].wrote = TRUE]
    /\ UNCHANGED <<env, now, portOwner, pc, creds, listening, outcome, timer, opened,
                   fileAtStart, settledAt>>
    /\ UNCHANGED callerVars
    /\ UNCHANGED pureVars

\* saveToken: fs.writeFile writes the text and closes the file
FsWrite(f, i) ==
    /\ i \in DOMAIN handlers[f]
    /\ handlers[f][i].stage = "writing"
    /\ NoPendingTick
    /\ tokenFile' = FileWith(JSONstringify(handlers[f][i].tokenInfo))
    /\ handlers' = [handlers EXCEPT ![f][i].stage = "written"]
    /\ UNCHANGED <<env, now, portOwner, pc, creds, listening, outcome, timer, opened,
                   fileAtStart, settledAt>>
    /\ UNCHANGED apiVars
    /\ UNCHANGED pureVars

\* (mutant) the error of saveToken is swallowed: the handler goes on to the
\* success page
SaveThrows_Swallowed(f, i) ==
    /\ i \in DOMAIN handlers[f]
    /\ handlers[f][i].stage \in {"saving", "writing"}
    /\ NoPendingTick
    /\ handlers' = [handlers EXCEPT ![f][i].stage = "written"]
    /\ UNCHANGED <<env, now, portOwner, tokenFile, pc, creds, listening, outcome, timer,
                   opened, fileAtStart, settledAt>>
    /\ UNCHANGED apiVars
    /\ UNCHANGED pureVars

\* saveToken throws: mkdir or open fails (file untouched), or the write fails
\* after the file was truncated
SaveThrows(f, i) ==
    /\ i \in DOMAIN handlers[f]
    /\ handlers[f][i].stage \in {"saving", "writing"}
    /\ NoPendingTick
    /\ FailHandler(f, i, [type |-> "storage", detail |-> ""])
    /\ UNCHANGED <<env, now, tokenFile, pc, creds, timer, opened, fileAtStart>>
    /\ UNCHANGED apiVars
    /\ UNCHANGED pureVars

\* (mutant) no setTimeout(server.close, 1000) after the success page
SaveReturn_NoCloseTimer(f, i) ==
    /\ i \in DOMAIN handlers[f]
    /\ handlers[f][i].stage = "written"
    /\ NoPendingTick
    /\ handlers' = [handlers EXCEPT ![f][i].stage = "done"]
    /\ SettleFlow(f, Resolved(handlers[f][i].tokenInfo))
    /\ UNCHANGED <<env, now, portOwner, tokenFile, pc, creds, listening, timer, opened,
                   fileAtStart>>
    /\ UNCHANGED apiVars
    /\ UNCHANGED pureVars

\* after `await tokenManager.saveToken(tokenInfo)`: success page,
\* setTimeout(server.close, 1000), resolve(tokenInfo)
SaveReturn(f, i) ==
    /\ i \in DOMAIN handlers[f]
    /\ handlers[f][i].stage = "written"
    /\ NoPendingTick
    /\ handlers' = [handlers EXCEPT ![f][i].stage = "done",
                                    ![f][i].closeTimer = Armed(now + CLOSE_DELAY_MS)]
    /\ SettleFlow(f, Resolved(handlers[f][i].tokenInfo))
    /\ UNCHANGED <<env, now, portOwner, tokenFile, pc, creds, listening, timer, opened,
                   fileAtStart>>
    /\ UNCHANGED apiVars
    /\ UNCHANGED pureVars

\* the one-second timer set after success: server.close()
CloseTimerFire(f, i) ==
    /\ i \in DOMAIN handlers[f]
    /\ handlers[f][i].closeTimer.state = "armed"
    /\ now >= handlers[f][i].closeTimer.at
    /\ NoPendingTick
    /\ handlers' = [handlers EXCEPT ![f][i].closeTimer = Fired(@.at)]
    /\ CloseServer(f)
    /\ UNCHANGED <<env, now, tokenFile, pc, creds, outcome, timer, opened, fileAtStart,
                   settledAt>>
    /\ UNCHANGED apiVars
    /\ UNCHANGED pureVars

\* the five-minute timer: server.close(), reject(timeout)
TimeoutFire(f) ==
    /\ timer[f].state = "armed"
    /\ now >= timer[f].at
    /\ NoPendingTick
    /\ timer' = [timer EXCEPT ![f] = Fired(@.at)]
    /\ CloseServer(f)
    /\ outcome' = [outcome EXCEPT ![f] = OnTimeout(@)]
    /\ settledAt' = [settledAt EXCEPT ![f] = IF outcome[f] = Pending THEN now ELSE @]
    /\ UNCHANGED <<env, now, tokenFile, pc, creds, opened, handlers, fileAtStart>>
    /\ UNCHANGED apiVars
    /\ UNCHANGED pureVars

\* ------------------------------------------------------------- the clock
\* the deadlines of the timers that are set and have not fired
Deadlines ==
    {timer[f].at : f \in {g \in Flows : timer[g].state = "armed"}}
    \cup UNION {{handlers[f][i].closeTimer.at :
                    i \in {j \in DOMAIN handlers[f] : handlers[f][j].closeTimer.state = "armed"}} :
                f \in Flows}
Earliest(S) == CHOOSE d \in S : \A e \in S : d <= e

\* time passes up to the next deadline; a timer fires no later than its deadline
AdvanceToDeadline ==
    /\ Deadlines # {}
    /\ NoPendingTick
    /\ now < Earliest(Deadlines)
    /\ now' = Earliest(Deadlines)
    /\ UNCHANGED <<env, portOwner, tokenFile, pc, creds, listening, outcome, timer,
                   opened, handlers, fileAtStart, settledAt>>
    /\ UNCHANGED apiVars
    /\ UNCHANGED pureVars

\* a request reaches GET /callback, while fewer than `limit` have
CallbackRequest(f, q, limit) == TotalRequests < limit /\ Callback(f, q)

\* the steps of the requests being handled, and the timers
Progress ==
    \/ \E f \in Flows, i \in 1..MaxRequests : ExchangeAnswered(f, i)
    \/ \E f \in Flows, i \in 1..MaxRequests : ExchangeThrows(f, i)
    \/ \E f \in Flows, i \in 1..MaxRequests : FsOpen(f, i)
    \/ \E f \in Flows, i \in 1..MaxRequests : FsWrite(f, i)
    \/ \E f \in Flows, i \in 1..MaxRequests : SaveThrows(f, i)
    \/ \E f \in Flows, i \in 1..MaxRequests : SaveReturn(f, i)
    \/ \E f \in Flows, i \in 1..MaxRequests : CloseTimerFire(f, i)
    \/ \E f \in Flows : TimeoutFire(f)
    \/ AdvanceToDeadline

\* One call of authenticate(); up to MaxRequests requests reach its callback endpoint.
Next ==
    \/ \E a \in ArgValues, s \in ArgValues : Start(1, a, s)
    \/ \E threw \in BOOLEAN : ListenCallback(1, threw)
    \/ \E q \in Queries : CallbackRequest(1, q, MaxRequests)
    \/ Progress

Spec == Init /\ [][Next]_vars

\* NumFlows calls of authenticate() in one process, which share the port; one
\* request in all reaches a callback endpoint.
NextPort ==
    \/ \E f \in Flows, a \in ArgValues, s \in ArgValues : Start(f, a, s)
    \/ \E f \in Flows, threw \in BOOLEAN : ListenCallback(f, threw)
    \/ \E f \in Flows : ServerError(f)
    \/ \E f \in Flows, q \in Queries : CallbackRequest(f, q, 1)
    \/ Progress

SpecPort == Init /\ [][NextPort]_vars

\* The event loop runs a queued callback and a timer that is due; time passes.
\* Nothing makes a request reach the endpoint, the token endpoint answer, or a
\* file operation end.
Fairness ==
    /\ WF_vars(AdvanceToDeadline)
    /\ \A f \in Flows : WF_vars(\E threw \in BOOLEAN : ListenCallback(f, threw))
    /\ \A f \in Flows : WF_vars(ServerError(f))
    /\ \A f \in Flows : WF_vars(TimeoutFire(f))
    /\ \A f \in Flows : \A i \in 1..MaxRequests : WF_vars(CloseTimerFire(f, i))

SpecPortLive == Init /\ [][NextPort]_vars /\ Fairness

\* ------------------------------------------------------------- tokenManager, foursquareAPI
\* Calls of the methods of the two singletons.  A call runs up to its next
\* await in one step; up to NumTasks calls are in progress at once (the MCP server
\* and the CLI start a call per request).
StoreInit ==
    /\ env = [FOURSQUARE_CLIENT_ID |-> None, FOURSQUARE_CLIENT_SECRET |-> None]
    /\ now = 0
    /\ portOwner = 0
    /\ tokenFile \in {NoFile, CorruptFile} \cup {FileWith(JSONstringify(r)) : r \in TokenInfos}
    /\ pc = [f \in Flows |-> "idle"]
    /\ creds = [f \in Flows |-> [clientId |-> "", clientSecret |-> ""]]
    /\ listening = [f \in Flows |-> FALSE]
    /\ outcome = [f \in Flows |-> Pending]
    /\ timer = [f \in Flows |-> Unset]
    /\ opened = [f \in Flows |-> [calls |-> 0, threw |-> FALSE]]
    /\ handlers = [f \in Flows |-> <<>>]
    /\ fileAtStart = [f \in Flows |-> NoFile]
    /\ settledAt = [f \in Flows |-> -1]
    /\ envAccessToken \in EnvTokens
    /\ accessToken = None
    /\ accessTokenFrom = "none"
    /\ tokenIno = (IF tokenFile.exists THEN 1 ELSE 0)
    /\ task = [t \in Tasks |-> IdleTask]
    /\ lastStoreOp = NoStoreOp
    /\ tokenMode \in (IF tokenFile.exists THEN FileModes ELSE {0})
    /\ sysEnv = DefaultSysEnv
    /\ applied = NoCall

\* the call of task t ends with `result`: its arguments and its file descriptor are gone
Done(tk, t, result) ==
    [tk EXCEPT ![t].stage = "done", ![t].result = result, ![t].token = NoTokenInfo,
               ![t].explicit = None, ![t].fd = 0]

\* a task is free to make a call
CanCall(t) == task[t].stage \in {"idle", "done"}
\* the calls in progress
Active(tk) == {u \in Tasks : tk[u].stage \notin {"idle", "done"}}
\* (history) the token file changed while these calls were in progress
MarkChanged(tk, changes) ==
    [u \in Tasks |-> IF changes /\ u \in Active(tk) THEN [tk[u] EXCEPT !.changed = TRUE]
                     ELSE tk[u]]
\* an inode that the path does not name and no open file descriptor refers to
FreshIno ==
    CHOOSE i \in 1..(NumTasks + 1) :
        /\ i # tokenIno
        /\ \A u \in Tasks : ~(task[u].stage = "write" /\ task[u].fd = i)

\* tokenManager.saveToken(token) is called
SaveTokenCall(t, token) ==
    /\ CanCall(t)
    /\ task' = [task EXCEPT ![t] = [NewTask("saveToken", "open") EXCEPT !.token = token]]
    /\ UNCHANGED <<now, tokenFile, envAccessToken, accessToken, accessTokenFrom, tokenIno,
                   lastStoreOp>>
    /\ UNCHANGED tokenMode
    /\ UNCHANGED authVars
    /\ UNCHANGED pureVars

\* saveToken: fs.writeFile opens the path with O_WRONLY | O_CREAT | O_TRUNC
StoreOpen(t) ==
    /\ task[t].stage = "open"
    /\ tokenFile' = FileWith(<<>>)
    /\ tokenIno' = (IF tokenFile.exists THEN tokenIno ELSE FreshIno)
    /\ tokenMode' = ModeAfterOpen(tokenFile, tokenMode)
    /\ task' = [MarkChanged(task, tokenFile' # tokenFile) EXCEPT
                    ![t].stage = "write", ![t].fd = tokenIno']
    /\ lastStoreOp' = [op |-> "saving",
                       old |-> IF lastStoreOp.op = "saving" THEN lastStoreOp.old ELSE tokenFile,
                       arg |-> task[t].token]
    /\ UNCHANGED <<now, envAccessToken, accessToken, accessTokenFrom>>
    /\ UNCHANGED authVars
    /\ UNCHANGED pureVars

\* saveToken: fs.writeFile writes the text to the open file and closes it; the
\* text is not seen under the path when the file was unlinked in between
StoreWrite(t) ==
    /\ task[t].stage = "write"
    /\ LET linked == tokenFile.exists /\ tokenIno = task[t].fd
       IN /\ tokenFile' = (IF linked THEN FileWith(JSONstringify(task[t].token)) ELSE tokenFile)
          /\ lastStoreOp' = (IF linked
                             THEN [op |-> "saved",
                                   old |-> IF lastStoreOp.op = "saving" THEN lastStoreOp.old
                                           ELSE tokenFile,
                                   arg |-> task[t].token]
                             ELSE lastStoreOp)
    /\ task' = Done(MarkChanged(task, tokenFile' # tokenFile), t, Returned(None))
    /\ UNCHANGED <<now, envAccessToken, accessToken, accessTokenFrom, tokenIno>>
    /\ UNCHANGED tokenMode
    /\ UNCHANGED authVars
    /\ UNCHANGED pureVars

\* tokenManager.deleteToken() is called
DeleteTokenCall(t) ==
    /\ CanCall(t)
    /\ task' = [task EXCEPT ![t] = NewTask("deleteToken", "unlink")]
    /\ UNCHANGED <<now, tokenFile, envAccessToken, accessToken, accessTokenFrom, tokenIno,
                   lastStoreOp>>
    /\ UNCHANGED tokenMode
    /\ UNCHANGED authVars
    /\ UNCHANGED pureVars

\* fs.unlink(path): the error it fails with, if any
unlinkError(file) == IF file.exists THEN "none" ELSE "ENOENT"

\* (mutant) the catch block rethrows every error
deleteTokenResult_Rethrows(error) ==
    IF error # "none" THEN Threw(error) ELSE Returned(None)

\* deleteToken: `catch (error) { if (error.code !== 'ENOENT') throw error; }`
deleteTokenResult(error) ==
    IF error \notin {"none", "ENOENT"} THEN Threw(error) ELSE Returned(None)

\* deleteToken: fs.unlink; ENOENT is ignored
StoreUnlink(t) ==
    /\ task[t].stage = "unlink"
    /\ tokenFile' = NoFile
    /\ tokenIno' = 0
    /\ tokenMode' = 0
    /\ lastStoreOp' = [op |-> "deleted", old |-> tokenFile, arg |-> NoTokenInfo]
    /\ task' = Done(MarkChanged(task, tokenFile' # tokenFile), t,
                    deleteTokenResult(unlinkError(tokenFile)))
    /\ UNCHANGED <<now, envAccessToken, accessToken, accessTokenFrom>>
    /\ UNCHANGED authVars
    /\ UNCHANGED pureVars

\* tokenManager.loadToken(), hasToken() or isTokenValid() is called: each starts
\* with fs.readFile
ReadCall(t, op) ==
    /\ CanCall(t)
    /\ op \in {"loadToken", "hasToken", "isTokenValid"}
    /\ task' = [task EXCEPT ![t] = NewTask(op, "read")]
    /\ UNCHANGED <<now, tokenFile, envAccessToken, accessToken, accessTokenFrom, tokenIno,
                   lastStoreOp>>
    /\ UNCHANGED tokenMode
    /\ UNCHANGED authVars
    /\ UNCHANGED pureVars

\* foursquareAPI.setToken(token?) is called
SetTokenCall(t, token) ==
    /\ CanCall(t)
    /\ IF Truthy(token)
       THEN /\ accessToken' = token
            /\ accessTokenFrom' = "explicit"
            /\ task' = [task EXCEPT ![t] = [NewTask("setToken", "done") EXCEPT
                            !.result = Returned(None)]]
       ELSE /\ task' = [task EXCEPT ![t] = [NewTask("setToken", "read") EXCEPT
                            !.explicit = token]]
            /\ UNCHANGED <<accessToken, accessTokenFrom>>
    /\ UNCHANGED <<now, tokenFile, envAccessToken, tokenIno, lastStoreOp>>
    /\ UNCHANGED tokenMode
    /\ UNCHANGED authVars
    /\ UNCHANGED pureVars

\* foursquareAPI.getUserCheckins() or checkAuth() is called: without a token in
\* this.accessToken the token file is read first, with one the request is sent
ApiCall(t, op) ==
    /\ CanCall(t)
    /\ op \in {"getUserCheckins", "checkAuth"}
    /\ task' = [task EXCEPT ![t] =
                    IF ~Truthy(accessToken) THEN NewTask(op, "read")
                    ELSE [NewTask(op, "fetch") EXCEPT !.bearer = accessToken]]
    /\ UNCHANGED <<now, tokenFile, envAccessToken, accessToken, accessTokenFrom, tokenIno,
                   lastStoreOp>>
    /\ UNCHANGED tokenMode
    /\ UNCHANGED authVars
    /\ UNCHANGED pureVars

\* (mutant) isTokenValid() removes the file of a record it finds expired
StoreRead_DeletesExpired(t) ==
    /\ task[t].stage = "read"
    /\ task[t].op = "isTokenValid"
    /\ loadToken(tokenFile).kind = "token"
    /\ LET valid == isTokenValid(loadToken(tokenFile), now)
       IN /\ task' = Done(task, t, Returned(valid))
          /\ tokenFile' = (IF valid THEN tokenFile ELSE NoFile)
          /\ tokenIno' = (IF valid THEN tokenIno ELSE 0)
          /\ tokenMode' = (IF valid THEN tokenMode ELSE 0)
    /\ UNCHANGED <<now, envAccessToken, accessToken, accessTokenFrom, lastStoreOp>>
    /\ UNCHANGED authVars
    /\ UNCHANGED pureVars

\* fs.readFile and JSON.parse end, and the method that awaited loadToken() goes on
StoreRead(t) ==
    /\ task[t].stage = "read"
    /\ LET loaded == loadToken(tokenFile)
           op == task[t].op
           end(result) == Done(task, t, result)
       IN IF loaded.kind = "throws"
          THEN \* the SyntaxError leaves every one of the methods
               /\ task' = end(Threw("SyntaxError"))
               /\ UNCHANGED <<accessToken, accessTokenFrom>>
          ELSE IF op = "loadToken"
          THEN /\ task' = end(Returned(loaded))
               /\ UNCHANGED <<accessToken, accessTokenFrom>>
          ELSE IF op = "hasToken"
          THEN /\ task' = end(Returned(loaded.kind # "null"))
               /\ UNCHANGED <<accessToken, accessTokenFrom>>
          ELSE IF op = "isTokenValid"
          THEN /\ task' = end(Returned(isTokenValid(loaded, now)))
               /\ UNCHANGED <<accessToken, accessTokenFrom>>
          ELSE IF loaded.kind = "null"
          THEN /\ task' = end(IF op = "checkAuth" THEN Returned(FALSE)
                              ELSE Threw("not_authenticated"))
               /\ UNCHANGED <<accessToken, accessTokenFrom>>
          ELSE /\ accessToken' = loaded.token.access_token
               /\ accessTokenFrom' = "store"
               /\ task' = IF op = "setToken" THEN end(Returned(None))
                          ELSE [task EXCEPT ![t].stage = "fetch", ![t].bearer = accessToken']
    /\ UNCHANGED <<now, tokenFile, envAccessToken, tokenIno, lastStoreOp>>
    /\ UNCHANGED tokenMode
    /\ UNCHANGED authVars
    /\ UNCHANGED pureVars

\* checkAuth after its request: `return response.ok` in try, `return false` in catch
checkAuthResult(response) == Returned(response \in {"ok", "meta_error"})

\* (mutant) the `data.meta.code !== 200` test is missing
getUserCheckinsResult_NoMetaCheck(response) ==
    IF response = "transport_error" THEN Threw("transport")
    ELSE IF response = "http_error" THEN Threw("api_error")
    ELSE Returned("items")

\* getUserCheckins after its request: fetch rejects; `if (!response.ok) throw`;
\* `if (data.meta.code !== 200) throw`; `return data.response.checkins.items`
getUserCheckinsResult(response) ==
    IF response = "transport_error" THEN Threw("transport")
    ELSE IF response = "http_error" THEN Threw("api_error")
    ELSE IF response = "meta_error" THEN Threw("api_error")
    ELSE Returned("items")

\* the request to /users/self/checkins ends
FetchReturn(t, response) ==
    /\ task[t].stage = "fetch"
    /\ task' = Done(task, t,
                    IF task[t].op = "checkAuth" THEN checkAuthResult(response)
                    ELSE getUserCheckinsResult(response))
    /\ UNCHANGED <<now, tokenFile, envAccessToken, accessToken, accessTokenFrom, tokenIno,
                   lastStoreOp>>
    /\ UNCHANGED tokenMode
    /\ UNCHANGED authVars
    /\ UNCHANGED pureVars

\* time passes
Elapse ==
    /\ \E later \in Times : later > now /\ now' = later
    /\ UNCHANGED <<tokenFile, envAccessToken, accessToken, accessTokenFrom, tokenIno, task,
                   lastStoreOp>>
    /\ UNCHANGED tokenMode
    /\ UNCHANGED authVars
    /\ UNCHANGED pureVars

\* One caller: the calls are made one after the other, each after the one before
\* has ended.
NextStore ==
    \/ \E token \in TokenInfos : SaveTokenCall(1, token)
    \/ StoreOpen(1)
    \/ StoreWrite(1)
    \/ DeleteTokenCall(1)
    \/ StoreUnlink(1)
    \/ \E op \in {"loadToken", "hasToken", "isTokenValid"} : ReadCall(1, op)
    \/ \E token \in ExplicitTokens : SetTokenCall(1, token)
    \/ \E op \in {"getUserCheckins", "checkAuth"} : ApiCall(1, op)
    \/ StoreRead(1)
    \/ \E response \in Responses : FetchReturn(1, response)
    \/ Elapse

SpecStore == StoreInit /\ [][NextStore]_vars

\* NumTasks callers of the token manager, whose calls of saveToken, loadToken and
\* deleteToken interleave at every await; they save one of two records.
RaceInfos ==
    {[access_token |-> "S1", created_at |-> 0],
     [access_token |-> "S2", created_at |-> 1000, expires_in |-> 1]}

StoreRaceInit ==
    /\ StoreInit
    /\ envAccessToken = None
    /\ tokenFile \in {NoFile, CorruptFile} \cup {FileWith(JSONstringify(r)) : r \in RaceInfos}
    /\ tokenMode \in {0, MODE_0600}

NextStoreRace ==
    \/ \E t \in Tasks, token \in RaceInfos : SaveTokenCall(t, token)
    \/ \E t \in Tasks : StoreOpen(t)
    \/ \E t \in Tasks : StoreWrite(t)
    \/ \E t \in Tasks : DeleteTokenCall(t)
    \/ \E t \in Tasks : StoreUnlink(t)
    \/ \E t \in Tasks : ReadCall(t, "loadToken")
    \/ \E t \in Tasks : StoreRead(t)

SpecStoreRace == StoreRaceInit /\ [][NextStoreRace]_vars

\* ------------------------------------------------------------- the MCP tools
\* What a tool handler returns: { content: [{ type: "text", text }] }, with
\* isError: true from its catch block.
ToolText(text) == [kind |-> "content", text |-> text, isError |-> FALSE]
ToolError(message) == [kind |-> "content", text |-> message, isError |-> TRUE]

\* (mutant) no try/catch in the handler: what the body throws leaves the handler
toolCatch_Rethrows(r) == r

\* `try { ... return ... } catch (error) { return { ..., isError: true } }`
toolCatch(r) == IF r.kind = "threw" THEN ToolError(r.error) ELSE r

\* check-auth-status: the message after checkAuth() returned `isValid`; the source
\* it names is chosen by `!!process.env.FOURSQUARE_ACCESS_TOKEN`
statusText(isValid, envToken) ==
    IF ~isValid THEN ToolText("token_invalid")
    ELSE IF Truthy(envToken) THEN ToolText("valid_from_environment")
    ELSE ToolText("valid_from_file")

\* the state the tool handlers leave alone
toolFrame == <<now, tokenFile, envAccessToken, tokenIno, lastStoreOp, tokenMode>>

\* A process with or without the client credentials and the access token in its
\* environment, and with no token file, an unparsable one, or one with a record.
ToolsInit ==
    /\ env \in Envs
    /\ now = 0
    /\ portOwner = 0
    /\ tokenFile \in {NoFile, CorruptFile,
                      FileWith(JSONstringify([access_token |-> "S1", created_at |-> 0]))}
    /\ pc = [f \in Flows |-> "idle"]
    /\ creds = [f \in Flows |-> [clientId |-> "", clientSecret |-> ""]]
    /\ listening = [f \in Flows |-> FALSE]
    /\ outcome = [f \in Flows |-> Pending]
    /\ timer = [f \in Flows |-> Unset]
    /\ opened = [f \in Flows |-> [calls |-> 0, threw |-> FALSE]]
    /\ handlers = [f \in Flows |-> <<>>]
    /\ fileAtStart = [f \in Flows |-> NoFile]
    /\ settledAt = [f \in Flows |-> -1]
    /\ envAccessToken \in EnvTokens
    /\ accessToken = None
    /\ accessTokenFrom = "none"
    /\ tokenIno = (IF tokenFile.exists THEN 1 ELSE 0)
    /\ task = [t \in Tasks |-> IdleTask]
    /\ lastStoreOp = NoStoreOp
    /\ tokenMode = (IF tokenFile.exists THEN MODE_0600 ELSE 0)
    /\ sysEnv = DefaultSysEnv
    /\ applied = NoCall

\* the authenticate tool is called: the handler calls authenticate() and awaits
\* its promise; the call made by task t is flow t
AuthenticateToolCall(t, clientId, clientSecret) ==
    /\ CanCall(t)
    /\ t \in Flows
    /\ StartFlow(t, clientId, clientSecret)
    /\ task' = [task EXCEPT ![t] = NewTask("authenticate", "await")]
    /\ UNCHANGED <<envAccessToken, accessToken, accessTokenFrom, tokenIno, lastStoreOp,
                   tokenMode>>
    /\ UNCHANGED pureVars

\* the promise of authenticate() is settled: the handler returns
AuthenticateToolReturn(t) ==
    /\ task[t].op = "authenticate"
    /\ task[t].stage = "await"
    /\ outcome[t] # Pending
    /\ task' = Done(task, t,
                    toolCatch(IF outcome[t].kind = "resolved" THEN ToolText("authenticated")
                              ELSE Threw(outcome[t].error.type)))
    /\ UNCHANGED <<accessToken, accessTokenFrom>>
    /\ UNCHANGED toolFrame
    /\ UNCHANGED authVars
    /\ UNCHANGED pureVars

\* the check-auth-status tool is called: the handler awaits tokenManager.hasToken()
CheckAuthStatusToolCall(t) ==
    /\ CanCall(t)
    /\ task' = [task EXCEPT ![t] = NewTask("check-auth-status", "hasToken")]
    /\ UNCHANGED <<accessToken, accessTokenFrom>>
    /\ UNCHANGED toolFrame
    /\ UNCHANGED authVars
    /\ UNCHANGED pureVars

\* check-auth-status: hasToken() ends; without a token the handler returns, with
\* one it calls foursquareAPI.checkAuth(), which reads the token file unless the
\* client holds a token
ToolHasTokenRead(t) ==
    /\ task[t].op = "check-auth-status"
    /\ task[t].stage = "hasToken"
    /\ LET loaded == loadToken(tokenFile)
       IN task' = IF loaded.kind = "throws"
                  THEN Done(task, t, toolCatch(Threw("SyntaxError")))
                  ELSE IF loaded.kind = "null"
                  THEN Done(task, t, toolCatch(ToolText("token_not_found")))
                  ELSE IF ~Truthy(accessToken)
                  THEN [task EXCEPT ![t].stage = "checkAuth_read"]
                  ELSE [task EXCEPT ![t].stage = "checkAuth_fetch", ![t].bearer = accessToken]
    /\ UNCHANGED <<accessToken, accessTokenFrom>>
    /\ UNCHANGED toolFrame
    /\ UNCHANGED authVars
    /\ UNCHANGED pureVars

\* check-auth-status: the loadToken() of checkAuth() ends
ToolCheckAuthRead(t) ==
    /\ task[t].op = "check-auth-status"
    /\ task[t].stage = "checkAuth_read"
    /\ LET loaded == loadToken(tokenFile)
       IN IF loaded.kind = "throws"
          THEN /\ task' = Done(task, t, toolCatch(Threw("SyntaxError")))
               /\ UNCHANGED <<accessToken, accessTokenFrom>>
          ELSE IF loaded.kind = "null"
          THEN /\ task' = Done(task, t, toolCatch(statusText(FALSE, envAccessToken)))
               /\ UNCHANGED <<accessToken, accessTokenFrom>>
          ELSE /\ accessToken' = loaded.token.access_token
               /\ accessTokenFrom' = "store"
               /\ task' = [task EXCEPT ![t].stage = "checkAuth_fetch",
                                       ![t].bearer = accessToken']
    /\ UNCHANGED toolFrame
    /\ UNCHANGED authVars
    /\ UNCHANGED pureVars

\* check-auth-status: the request of checkAuth() ends, and the handler returns
ToolCheckAuthFetch(t, response) ==
    /\ task[t].op = "check-auth-status"
    /\ task[t].stage = "checkAuth_fetch"
    /\ task' = Done(task, t,
                    toolCatch(statusText(checkAuthResult(response).value, envAccessToken)))
    /\ UNCHANGED <<accessToken, accessTokenFrom>>
    /\ UNCHANGED toolFrame
    /\ UNCHANGED authVars
    /\ UNCHANGED pureVars

\* the get-user-checkins tool is called: the handler awaits
\* foursquareAPI.getUserCheckins()
CheckinsToolCall(t) ==
    /\ CanCall(t)
    /\ task' = [task EXCEPT ![t] =
                    IF ~Truthy(accessToken) THEN NewTask("get-user-checkins", "checkins_read")
                    ELSE [NewTask("get-user-checkins", "checkins_fetch") EXCEPT
                              !.bearer = accessToken]]
    /\ UNCHANGED <<accessToken, accessTokenFrom>>
    /\ UNCHANGED toolFrame
    /\ UNCHANGED authVars
    /\ UNCHANGED pureVars

\* get-user-checkins: the loadToken() of setToken() ends
ToolCheckinsRead(t) ==
    /\ task[t].op = "get-user-checkins"
    /\ task[t].stage = "checkins_read"
    /\ LET loaded == loadToken(tokenFile)
       IN IF loaded.kind = "throws"
          THEN /\ task' = Done(task, t, toolCatch(Threw("SyntaxError")))
               /\ UNCHANGED <<accessToken, accessTokenFrom>>
          ELSE IF loaded.kind = "null"
          THEN /\ task' = Done(task, t, toolCatch(Threw("not_authenticated")))
               /\ UNCHANGED <<accessToken, accessTokenFrom>>
          ELSE /\ accessToken' = loaded.token.access_token
               /\ accessTokenFrom' = "store"
               /\ task' = [task EXCEPT ![t].stage = "checkins_fetch",
                                       ![t].bearer = accessToken']
    /\ UNCHANGED toolFrame
    /\ UNCHANGED authVars
    /\ UNCHANGED pureVars

\* get-user-checkins: the request ends, and the handler returns the check-ins or
\* the error
ToolCheckinsFetch(t, response) ==
    /\ task[t].op = "get-user-checkins"
    /\ task[t].stage = "checkins_fetch"
    /\ LET r == getUserCheckinsResult(response)
       IN task' = Done(task, t, toolCatch(IF r.kind = "threw" THEN r ELSE ToolText("checkins")))
    /\ UNCHANGED <<accessToken, accessTokenFrom>>
    /\ UNCHANGED toolFrame
    /\ UNCHANGED authVars
    /\ UNCHANGED pureVars

\* The server handles one tool call after the other; the flow that an
\* authenticate call started goes on after the handler has returned.
NextTools ==
    \/ \E a \in ArgValues, s \in ArgValues : AuthenticateToolCall(1, a, s)
    \/ \E threw \in BOOLEAN : ListenCallback(1, threw)
    \/ \E q \in Queries : CallbackRequest(1, q, 1)
    \/ Progress
    \/ AuthenticateToolReturn(1)
    \/ CheckAuthStatusToolCall(1)
    \/ ToolHasTokenRead(1)
    \/ ToolCheckAuthRead(1)
    \/ \E response \in Responses : ToolCheckAuthFetch(1, response)
    \/ CheckinsToolCall(1)
    \/ ToolCheckinsRead(1)
    \/ \E response \in Responses : ToolCheckinsFetch(1, response)

SpecTools == ToolsInit /\ [][NextTools]_vars

\* ------------------------------------------------------------- authenticate, then isTokenValid
\* One call of authenticate() that one callback request reaches, and calls of
\* tokenManager.isTokenValid() made before, during and after it.
NextAuthValid ==
    \/ \E a \in ArgValues, s \in ArgValues : Start(1, a, s)
    \/ \E threw \in BOOLEAN : ListenCallback(1, threw)
    \/ \E q \in Queries : CallbackRequest(1, q, 1)
    \/ Progress
    \/ ReadCall(1, "isTokenValid")
    \/ StoreRead(1)

SpecAuthValid == Init /\ [][NextAuthValid]_vars

\* ------------------------------------------------------------- getConfigDir, get-user-checkins
\* A process on some platform, with some home directory and values of
\* XDG_CONFIG_HOME and APPDATA; nothing else of the program runs.
CallsInit ==
    /\ env = [FOURSQUARE_CLIENT_ID |-> None, FOURSQUARE_CLIENT_SECRET |-> None]
    /\ now = 0
    /\ portOwner = 0
    /\ tokenFile = NoFile
    /\ pc = [f \in Flows |-> "idle"]
    /\ creds = [f \in Flows |-> [clientId |-> "", clientSecret |-> ""]]
    /\ listening = [f \in Flows |-> FALSE]
    /\ outcome = [f \in Flows |-> Pending]
    /\ timer = [f \in Flows |-> Unset]
    /\ opened = [f \in Flows |-> [calls |-> 0, threw |-> FALSE]]
    /\ handlers = [f \in Flows |-> <<>>]
    /\ fileAtStart = [f \in Flows |-> NoFile]
    /\ settledAt = [f \in Flows |-> -1]
    /\ envAccessToken = None
    \* the API client holds a token: the tool's request is sent
    /\ accessToken = "E"
    /\ accessTokenFrom = "explicit"
    /\ tokenIno = 0
    /\ task = [t \in Tasks |-> IdleTask]
    /\ lastStoreOp = NoStoreOp
    /\ tokenMode = 0
    /\ sysEnv \in SysEnvs
    /\ applied = NoCall

\* getConfigDir() is called
GetConfigDirCall ==
    /\ applied' = [fn |-> "getConfigDir", value |-> getConfigDir(sysEnv)]
    /\ UNCHANGED <<now, tokenFile, sysEnv>>
    /\ UNCHANGED authVars
    /\ UNCHANGED apiVars

\* the get-user-checkins tool is called with `limit`: the handler passes the limit
\* of the parsed input to getUserCheckins, which builds the query of its request
GetUserCheckinsTool(limit) ==
    /\ applied' = [fn |-> "get-user-checkins", limit |-> limit,
                   sent |-> limitParam(toolLimit(limit))]
    /\ UNCHANGED <<now, tokenFile, sysEnv>>
    /\ UNCHANGED authVars
    /\ UNCHANGED apiVars

NextCalls ==
    \/ GetConfigDirCall
    \/ \E limit \in Limits : GetUserCheckinsTool(limit)

SpecCalls == CallsInit /\ [][NextCalls]_vars

\* ------------------------------------------------------------- properties
\* what loadToken() would return now
Stored == loadToken(tokenFile)
\* one callback request has reached flow f, and no other
OnlyCallback(f) == Len(handlers[f]) = 1
\* the token file is as it was when flow f was started
FileUntouched(f) == tokenFile = fileAtStart[f]
\* the runs of flow f's handler that sent a token-exchange request / opened the token file
Exchanges(f) == {i \in DOMAIN handlers[f] : handlers[f][i].requested > 0}
Writes(f) == {i \in DOMAIN handlers[f] : handlers[f][i].wrote}

\* C1: in a run of authenticate() that one callback request reaches, with a code,
\* and whose token exchange is answered with the access token T: once saveToken
\* has written, the token file parses to the record {access_token: T, created_at},
\* and when authenticate() resolves, it resolves with that same record.
C1_SuccessPersistsToken ==
    \A f \in Flows : OnlyCallback(f) =>
        LET h == handlers[f][1]
            T == IssuedToken(RequestOf(h))
        IN /\ h.stage \in {"written", "done"} =>
                /\ Truthy(h.query.code)
                /\ h.tokenInfo.access_token = T
                /\ Stored.kind = "token"
                /\ Stored.token = h.tokenInfo
           /\ outcome[f].kind = "resolved" =>
                /\ h.stage = "done"
                /\ outcome[f].value = h.tokenInfo
                /\ Stored.kind = "token"
                /\ Stored.token = outcome[f].value
                /\ Stored.token.access_token = T

C1_Witness ==
    \E f \in Flows :
        /\ OnlyCallback(f)
        /\ handlers[f][1].query.code = "abc123"
        /\ outcome[f].kind = "resolved"
        /\ outcome[f].value.access_token = "tok_xyz"
        /\ fileAtStart[f].exists
        /\ Stored.kind = "token"
        /\ Stored.token.access_token = "tok_xyz"

\* C2 (as written): a callback that carries an `error` query parameter, with or
\* without a code, sends no token-exchange request and ends in the provider-error
\* branch.
C2_AnyErrorParameterFails ==
    \A f \in Flows : \A i \in DOMAIN handlers[f] :
        handlers[f][i].query.error # None =>
            /\ handlers[f][i].requested = 0
            /\ handlers[f][i].error.type = "provider"

\* C2 (amended): a callback that carries a non-empty `error` query parameter, with
\* or without a code, is answered in the provider-error branch: the handler sends
\* no token-exchange request, writes nothing, closes the listener and rejects with
\* the provider's error.  When it is the first callback of the run, the flow fails
\* with the provider's error, no request was sent and the token file is as it was
\* when the flow started.
C2_ErrorCallbackFails ==
    \A f \in Flows : \A i \in DOMAIN handlers[f] :
        LET h == handlers[f][i]
        IN Truthy(h.query.error) =>
            /\ h.stage = "failed"
            /\ h.error = [type |-> "provider", detail |-> h.query.error]
            /\ h.requested = 0
            /\ ~h.wrote
            /\ ~listening[f]
            /\ portOwner # f
            /\ outcome[f].kind # "pending"
            /\ i = 1 =>
                /\ outcome[f] = Rejected("provider", h.query.error)
                /\ Exchanges(f) = {}
                /\ Writes(f) = {}
                /\ FileUntouched(f)

C2_Witness ==
    \E f \in Flows :
        /\ OnlyCallback(f)
        /\ handlers[f][1].query = [code |-> "abc123", error |-> "access_denied"]
        /\ outcome[f] = Rejected("provider", "access_denied")
        /\ fileAtStart[f].exists
        /\ FileUntouched(f)

\* C3: a callback with neither a code nor an error parameter is answered in the
\* missing-code branch: the handler sends no token-exchange request, writes
\* nothing, closes the listener and rejects with the missing-code error.  When it
\* is the first callback of the run, the flow fails with the missing-code error and
\* the token file is as it was when the flow started.
C3_MissingCodeFails ==
    \A f \in Flows : \A i \in DOMAIN handlers[f] :
        LET h == handlers[f][i]
        IN h.query = [code |-> None, error |-> None] =>
            /\ h.stage = "failed"
            /\ h.error.type = "missing_code"
            /\ h.requested = 0
            /\ ~h.wrote
            /\ ~listening[f]
            /\ portOwner # f
            /\ outcome[f].kind # "pending"
            /\ i = 1 =>
                /\ outcome[f] = Rejected("missing_code", "")
                /\ Exchanges(f) = {}
                /\ Writes(f) = {}
                /\ FileUntouched(f)

C3_Witness ==
    \E f \in Flows :
        /\ OnlyCallback(f)
        /\ handlers[f][1].query = [code |-> None, error |-> None]
        /\ outcome[f] = Rejected("missing_code", "")
        /\ fileAtStart[f].exists
        /\ FileUntouched(f)

\* C5: a call of authenticate() whose client identifier or client secret is empty
\* after the arguments were combined with the environment is rejected at once: it
\* binds no listener, holds no port, starts no timer, launches no browser and
\* handles no request (so it sends no token-exchange request).
C5_PreconditionFirst ==
    \A f \in Flows :
        (pc[f] # "idle" /\ (creds[f].clientId \in {None, ""} \/ creds[f].clientSecret \in {None, ""})) =>
            /\ pc[f] = "precondition_failed"
            /\ outcome[f] = Rejected("precondition", "")
            /\ ~listening[f]
            /\ portOwner # f
            /\ timer[f] = Unset
            /\ opened[f].calls = 0
            /\ handlers[f] = <<>>
            /\ FileUntouched(f)

C5_Witness ==
    \E f \in Flows :
        /\ pc[f] = "precondition_failed"
        /\ creds[f].clientId = "configured"
        /\ creds[f].clientSecret = ""
        /\ outcome[f] = Rejected("precondition", "")

\* C4 (as written): a token-exchange response that contains an error field, or
\* has no access token field, makes the handler fail.
C4_AnyErrorFieldFails ==
    [][\A f \in Flows : \A i \in DOMAIN handlers[f] :
         \A tokenData \in TokenDatas(RequestOf(handlers[f][i])) :
            (ExchangeReturn(f, i, tokenData)
                /\ (tokenData.error # None \/ tokenData.access_token = None))
            => handlers'[f][i].stage = "failed"]_vars

\* C4 (amended): a token-exchange response that contains a non-empty error field,
\* or has no access token field, makes the handler fail: it writes nothing to
\* the token file, the listener is closed and the promise is settled, as a failure
\* when this is the only callback of the run.
C4_ExchangeFailureStep ==
    \A f \in Flows : \A i \in DOMAIN handlers[f] :
        \A tokenData \in TokenDatas(RequestOf(handlers[f][i])) :
            (ExchangeReturn(f, i, tokenData)
                /\ (Truthy(tokenData.error) \/ tokenData.access_token = None))
            => /\ handlers'[f][i].stage = "failed"
               /\ handlers'[f][i].error.type \in {"token_error", "no_access_token"}
               /\ ~handlers'[f][i].wrote
               /\ tokenFile' = tokenFile
               /\ ~listening'[f]
               /\ portOwner' # f
               /\ outcome[f] = Pending => outcome'[f].kind = "rejected"

C4_ExchangeFailureState ==
    \A f \in Flows : \A i \in DOMAIN handlers[f] :
        LET h == handlers[f][i]
        IN h.error.type \in {"token_error", "no_access_token"} =>
            /\ h.stage = "failed"
            /\ ~h.wrote
            /\ ~listening[f]
            /\ portOwner # f
            /\ outcome[f].kind # "pending"
            /\ OnlyCallback(f) =>
                /\ outcome[f].kind = "rejected"
                /\ Writes(f) = {}
                /\ FileUntouched(f)

C4_ExchangeFailureWritesNothing ==
    []C4_ExchangeFailureState /\ [][C4_ExchangeFailureStep]_vars

C4_Witness ==
    \E f \in Flows :
        /\ OnlyCallback(f)
        /\ handlers[f][1].error = [type |-> "token_error", detail |-> "invalid_grant"]
        /\ outcome[f] = Rejected("token_error", "invalid_grant")
        /\ fileAtStart[f].exists
        /\ FileUntouched(f)
        /\ ~listening[f]

\* C6: in one run of authenticate() at most one run of the callback handler
\* comes to its end (success page or error page).
C6_HandlerRunsOnce ==
    \A f \in Flows :
        Cardinality({i \in DOMAIN handlers[f] : handlers[f][i].stage \in {"done", "failed"}}) <= 1

\* C7: one run of authenticate() sends at most one token-exchange request and
\* writes the token file at most once.
C7_OneExchangeOneWrite ==
    \A f \in Flows : Cardinality(Exchanges(f)) <= 1 /\ Cardinality(Writes(f)) <= 1

\* C8: a call of authenticate() whose bind fails because the port is held is
\* rejected with the address-in-use error in the same instant (no time passes
\* between the call and the rejection, the five-minute timer is still running),
\* and it launches no browser, serves no request and holds no port.
C8_BindFailureIsImmediate ==
    \A f \in Flows :
        /\ pc[f] = "error_tick" =>
            /\ timer[f] = Armed(now + TIMEOUT_MS)
            /\ portOwner \notin {0, f}
            /\ opened[f].calls = 0
        /\ pc[f] = "bind_failed" =>
            /\ outcome[f] = Rejected("address_in_use", "")
            /\ settledAt[f] + TIMEOUT_MS = timer[f].at
            /\ opened[f].calls = 0
            /\ handlers[f] = <<>>
            /\ ~listening[f]
            /\ portOwner # f

C8_Witness ==
    \E f \in Flows : \E g \in Flows :
        /\ pc[f] = "bind_failed"
        /\ outcome[f] = Rejected("address_in_use", "")
        /\ timer[f].state = "armed"
        /\ now < timer[f].at
        /\ portOwner = g
        /\ outcome[g] = Pending

\* C9: when the five-minute timer of a flow that bound its listener fires and no
\* callback request has arrived, the flow is rejected with the timeout error at
\* the deadline, its listener is closed and the port is not held by it; and a
\* call of authenticate() made while the port is free binds it.
C9_TimeoutState ==
    \A f \in Flows :
        /\ (timer[f].state = "fired" /\ pc[f] = "serving" /\ handlers[f] = <<>>) =>
            /\ outcome[f] = Rejected("timeout", "")
            /\ settledAt[f] = timer[f].at
            /\ ~listening[f]
            /\ portOwner # f
        /\ portOwner = f => listening[f]

C9_BindStep ==
    \A g \in Flows :
        (pc[g] = "idle" /\ pc'[g] \notin {"idle", "precondition_failed"} /\ portOwner = 0)
        => (portOwner' = g /\ listening'[g] /\ pc'[g] = "listen_tick")

C9_TimeoutFreesPort == []C9_TimeoutState /\ [][C9_BindStep]_vars

C9_Witness ==
    \E f \in Flows : \E g \in Flows :
        /\ timer[f].state = "fired"
        /\ handlers[f] = <<>>
        /\ outcome[f] = Rejected("timeout", "")
        /\ pc[g] = "serving"
        /\ listening[g]
        /\ portOwner = g
        /\ timer[g] = Armed(timer[f].at + TIMEOUT_MS)

\* C10: every call of authenticate() that passes the credential check has its
\* promise settled eventually, and no later than the deadline of its five-minute
\* timer, whether or not a callback arrives or the token exchange returns.
C10_SettledByDeadline ==
    \A f \in Flows :
        timer[f].state = "fired" => (outcome[f].kind # "pending" /\ settledAt[f] <= timer[f].at)

C10_EventuallyReports ==
    /\ []C10_SettledByDeadline
    /\ \A f \in Flows :
          (pc[f] \in {"listen_tick", "error_tick", "serving", "bind_failed"})
              ~> (outcome[f].kind # "pending")

C10_Witness ==
    \E f \in Flows :
        /\ OnlyCallback(f)
        /\ handlers[f][1].stage = "exchanging"
        /\ timer[f].state = "fired"
        /\ outcome[f] = Rejected("timeout", "")

\* C11: whenever authenticate() has reported a failure after its listener was bound
\* (provider error, missing code, failed exchange, failed save, timeout), the
\* listener is closed and the flow does not hold the port; this holds in the state
\* in which the failure is reported.
C11_FailureClosesListener ==
    \A f \in Flows :
        (outcome[f].kind = "rejected"
            /\ outcome[f].error.type \in {"provider", "missing_code", "token_error",
                                          "no_access_token", "transport", "storage", "timeout"})
        => /\ settledAt[f] >= 0
           /\ ~listening[f]
           /\ portOwner # f

C11_Witness ==
    \E f \in Flows :
        /\ outcome[f] = Rejected("storage", "")
        /\ settledAt[f] = now
        /\ Len(handlers[f]) = 2
        /\ handlers[f][2].stage = "exchanging"
        /\ ~listening[f]
        /\ portOwner = 0

\* the calls of getUserCheckins() and checkAuth() that have got as far as sending
\* their request, or have ended
ApiOps == {"getUserCheckins", "checkAuth"}
Resolving(t) == task[t].op \in ApiOps /\ task[t].stage \in {"fetch", "done"}
\* the call of task t ended by throwing the not-authenticated error (getUserCheckins)
\* or by returning false (checkAuth), without a request
NotAuthenticated(t) ==
    /\ task[t].stage = "done"
    /\ task[t].bearer = None
    /\ task[t].op = "getUserCheckins" => task[t].result = Threw("not_authenticated")
    /\ task[t].op = "checkAuth" => (task[t].result.kind = "returned" /\ ~task[t].result.value)
\* what a call of loadToken() that finds `loaded` ends in
LoadResult(loaded) == IF loaded.kind = "throws" THEN Threw("SyntaxError") ELSE Returned(loaded)

\* C12: the bearer token of an API operation is the explicit token when the
\* caller supplied one; otherwise the value of FOURSQUARE_ACCESS_TOKEN when it is
\* set; otherwise the stored token; with none of the three the operation fails
\* as not authenticated.
C12_TokenPrecedence ==
    \A t \in Tasks : Resolving(t) =>
        IF accessTokenFrom = "explicit" THEN task[t].bearer = accessToken
        ELSE IF Truthy(envAccessToken) THEN task[t].bearer = envAccessToken
        ELSE IF Stored.kind = "token" THEN task[t].bearer # None
        ELSE Stored.kind = "null" => NotAuthenticated(t)

\* C13: an API operation made without an explicit or environment token uses the
\* record that is in the token file at the time of the operation: its bearer
\* token is the stored access token, and with no token file it fails as not
\* authenticated (checkAuth: returns false).
C13_UsesCurrentRecord ==
    \A t \in Tasks :
        (Resolving(t) /\ accessTokenFrom # "explicit" /\ envAccessToken = None
            /\ ~task[t].changed)
        => /\ Stored.kind = "token" => task[t].bearer = Stored.token.access_token
           /\ Stored.kind = "null" => NotAuthenticated(t)

\* C14: every call of checkAuth() ends by returning a boolean; none ends by
\* throwing.
C14_CheckAuthNeverThrows ==
    \A t \in Tasks :
        (task[t].op = "checkAuth" /\ task[t].stage = "done") => task[t].result.kind = "returned"

\* C15: isTokenValid() returns false when there is no record, and for a record
\* with expires_in (any value, 0 included; any created_at, 0 included) it returns
\* false exactly when Date.now() > created_at + expires_in * 1000.
C15_ExpiryIsExact ==
    [][\A t \in Tasks :
         (StoreRead(t) /\ task[t].op = "isTokenValid" /\ Stored.kind # "throws")
         => /\ Stored.kind = "null" => task'[t].result = Returned(FALSE)
            /\ (Stored.kind = "token" /\ "expires_in" \in DOMAIN Stored.token)
               => task'[t].result =
                      Returned(~(now > Stored.token.created_at + Stored.token.expires_in * 1000))
      ]_vars

\* C16: for a stored record without expires_in, isTokenValid() returns true,
\* whatever created_at and Date.now() are.
C16_NoExpiryIsValid ==
    [][\A t \in Tasks :
         (StoreRead(t) /\ task[t].op = "isTokenValid" /\ Stored.kind = "token"
             /\ "expires_in" \notin DOMAIN Stored.token)
         => task'[t].result = Returned(TRUE)
      ]_vars

C16_Witness ==
    \E t \in Tasks :
        /\ task[t].op = "isTokenValid"
        /\ task[t].stage = "done"
        /\ task[t].result = Returned(TRUE)
        /\ Stored.kind = "token"
        /\ Stored.token = [access_token |-> "S2", created_at |-> 1000]
        /\ now = 3000

\* C17: once saveToken(r) has ended, the token file holds r and nothing of the
\* record it held before, and a loadToken() that follows returns a record equal
\* to r.
C17_FileHoldsSaved ==
    lastStoreOp.op = "saved" => Stored = [kind |-> "token", token |-> lastStoreOp.arg]

C17_LoadStep ==
    \A t \in Tasks :
        (StoreRead(t) /\ task[t].op = "loadToken" /\ lastStoreOp.op = "saved")
        => task'[t].result = Returned([kind |-> "token", token |-> lastStoreOp.arg])

C17_SaveLoadRoundTrip == []C17_FileHoldsSaved /\ [][C17_LoadStep]_vars

C17_Witness ==
    \E t \in Tasks :
        /\ task[t].op = "loadToken"
        /\ task[t].stage = "done"
        /\ lastStoreOp.op = "saved"
        /\ lastStoreOp.arg = [access_token |-> "S1", created_at |-> 0, expires_in |-> 0]
        /\ lastStoreOp.old = FileWith(JSONstringify(
               [access_token |-> "S2", created_at |-> 1000, expires_in |-> 1]))
        /\ task[t].result = Returned([kind |-> "token", token |-> lastStoreOp.arg])

\* C18: a loadToken() that reads the token file while a saveToken() is under way
\* returns what it would have returned before the save (the old record, or
\* absent) or the new record; it does not see an empty or partly written file.
C18_LoadSeesOldOrNew ==
    [][\A t \in Tasks :
         (StoreRead(t) /\ task[t].op = "loadToken" /\ lastStoreOp.op = "saving")
         => \/ task'[t].result = LoadResult(loadToken(lastStoreOp.old))
            \/ task'[t].result = Returned([kind |-> "token", token |-> lastStoreOp.arg])
      ]_vars

\* C19: loadToken() on a token path that names no file (nothing was saved, or the
\* file was deleted) returns null and does not throw.
C19_AbsentLoadsNull ==
    [][\A t \in Tasks :
         (StoreRead(t) /\ task[t].op = "loadToken" /\ ~tokenFile.exists)
         => task'[t].result = Returned([kind |-> "null"])
      ]_vars

C19_Witness ==
    \E t \in Tasks :
        /\ task[t].op = "loadToken"
        /\ task[t].stage = "done"
        /\ task[t].result = Returned([kind |-> "null"])
        /\ lastStoreOp.op = "deleted"
        /\ lastStoreOp.old.exists
        /\ ~tokenFile.exists

\* C20: loadToken() on a token file whose text does not parse throws; it returns
\* neither null nor a record, and it leaves the file as it is.
C20_CorruptLoadThrows ==
    [][\A t \in Tasks :
         (StoreRead(t) /\ task[t].op = "loadToken" /\ tokenFile.exists
             /\ ~JSONparses(tokenFile.data))
         => /\ task'[t].result = Threw("SyntaxError")
            /\ tokenFile' = tokenFile
      ]_vars

C20_Witness ==
    \E t \in Tasks :
        /\ task[t].op = "loadToken"
        /\ task[t].stage = "done"
        /\ task[t].result = Threw("SyntaxError")
        /\ tokenFile = CorruptFile
        /\ lastStoreOp = NoStoreOp

\* C21: hasToken() returns true exactly when loadToken() would return a record,
\* and false when loadToken() would return null or would throw (a token file
\* that does not parse).
C21_HasTokenIffLoads ==
    [][\A t \in Tasks :
         (StoreRead(t) /\ task[t].op = "hasToken")
         => task'[t].result = Returned(Stored.kind = "token")
      ]_vars

\* C22: every call of deleteToken() leaves the token path naming no file, so that
\* loadToken() returns null; and a call that finds no file (as the second of two
\* calls in a row does) returns without throwing.
C22_DeleteStep ==
    \A t \in Tasks :
        StoreUnlink(t)
        => /\ loadToken(tokenFile') = [kind |-> "null"]
           /\ ~tokenFile.exists => task'[t].result = Returned(None)
           /\ lastStoreOp.op = "deleted" => task'[t].result = Returned(None)

C22_DeletedIsEmpty == lastStoreOp.op = "deleted" => Stored = [kind |-> "null"]

C22_DeleteIsIdempotent == []C22_DeletedIsEmpty /\ [][C22_DeleteStep]_vars

\* A record was read from the token file, so the file existed; the last change
\* to the store is an unlink that found no file, so an earlier deleteToken() had
\* removed it and nothing was saved in between.
C22_Witness ==
    \E t \in Tasks :
        /\ accessTokenFrom = "store"
        /\ task[t].op = "deleteToken"
        /\ task[t].stage = "done"
        /\ task[t].result = Returned(None)
        /\ lastStoreOp = [op |-> "deleted", old |-> NoFile, arg |-> NoTokenInfo]
        /\ Stored = [kind |-> "null"]

\* C23: after every saveToken() that has ended, the token file has the permission
\* bits 0600, whether the call created the file or wrote over one that existed
\* with wider bits.
C23_SavedIsOwnerOnly == lastStoreOp.op = "saved" => tokenMode = MODE_0600

\* C24: a call of open(authUrl) that throws does not end the flow: the flow is
\* serving, its listener is bound and its promise is pending until a callback
\* arrives or the timer fires; and a callback that arrives then is handled as after
\* a launch that succeeded, by its query alone: provider error, missing code, or
\* token exchange, and an exchange that is answered with a token ends in success.
C24_StillAwaiting ==
    \A f \in Flows :
        (opened[f].threw /\ handlers[f] = <<>> /\ timer[f].state = "armed")
        => /\ pc[f] = "serving"
           /\ listening[f]
           /\ portOwner = f
           /\ outcome[f] = Pending

C24_CallbackStep ==
    \A f \in Flows : \A q \in Queries :
        (Callback(f, q) /\ opened[f].threw /\ handlers[f] = <<>>)
        => LET h == handlers'[f][1]
           IN /\ h.query = q
              /\ CallbackBranch(q) = "error" <=> outcome'[f] = Rejected("provider", q.error)
              /\ CallbackBranch(q) = "nocode" <=> outcome'[f] = Rejected("missing_code", "")
              /\ CallbackBranch(q) = "exchange"
                    <=> (h.stage = "exchanging" /\ h.requested > 0 /\ outcome'[f] = Pending
                         /\ listening'[f])

C24_BrowserFailureNotFatal == []C24_StillAwaiting /\ [][C24_CallbackStep]_vars

C24_Witness ==
    \E f \in Flows :
        /\ opened[f].threw
        /\ OnlyCallback(f)
        /\ handlers[f][1].stage = "done"
        /\ outcome[f] = Resolved(handlers[f][1].tokenInfo)
        /\ Stored = [kind |-> "token", token |-> handlers[f][1].tokenInfo]

\* the directory getConfigDir() gives when the override does not apply: macOS,
\* Windows (with APPDATA `appData`, or without), any other platform
PlatformDefault(e, appData) ==
    IF e.platform = "darwin"
    THEN e.home \o <<"Library", "Application Support", "foursquare-mcp">>
    ELSE IF e.platform = "win32"
    THEN (IF appData.set THEN appData.value ELSE e.home \o <<"AppData", "Roaming">>)
         \o <<"foursquare-mcp">>
    ELSE e.home \o <<".config", "foursquare-mcp">>
\* a variable that is set to the empty string, taken as unset
NonEmpty(v) == IF v.set /\ v.value = <<>> THEN EnvUnset ELSE v

\* C25 (as written): on every platform, when XDG_CONFIG_HOME is set the result of
\* getConfigDir() is <XDG_CONFIG_HOME>/foursquare-mcp, and the platform default
\* otherwise.
C25_SetOverrideWins ==
    applied.fn = "getConfigDir" =>
        applied.value = (IF sysEnv.XDG_CONFIG_HOME.set
                         THEN sysEnv.XDG_CONFIG_HOME.value \o <<"foursquare-mcp">>
                         ELSE PlatformDefault(sysEnv, NonEmpty(sysEnv.APPDATA)))

\* C25 (amended): on every platform, when XDG_CONFIG_HOME is set to a non-empty
\* value the result of getConfigDir() is <XDG_CONFIG_HOME>/foursquare-mcp; when it
\* is unset or empty the result is the platform default: on macOS
\* ~/Library/Application Support/foursquare-mcp, on Windows
\* %APPDATA%/foursquare-mcp, or ~/AppData/Roaming/foursquare-mcp when APPDATA is
\* unset or empty, and ~/.config/foursquare-mcp on every other platform.
C25_NonEmptyOverrideWins ==
    applied.fn = "getConfigDir" =>
        applied.value = (IF NonEmpty(sysEnv.XDG_CONFIG_HOME).set
                         THEN sysEnv.XDG_CONFIG_HOME.value \o <<"foursquare-mcp">>
                         ELSE PlatformDefault(sysEnv, NonEmpty(sysEnv.APPDATA)))

C25_Witness ==
    /\ applied.fn = "getConfigDir"
    /\ sysEnv.platform = "win32"
    /\ sysEnv.XDG_CONFIG_HOME = EnvSet(<<"/", "xdg">>)
    /\ sysEnv.APPDATA = EnvSet(<<"D:", "AppData">>)
    /\ applied.value = <<"/", "xdg", "foursquare-mcp">>

\* C26: the limit in the request of the get-user-checkins tool is 50 when the
\* caller gives none, and is at most 100 whatever limit the caller gives.
C26_LimitCapped ==
    applied.fn = "get-user-checkins" =>
        /\ ~applied.limit.given => applied.sent = 50
        /\ applied.sent <= 100

\* the runs of flow f's handler whose saveToken() has written its record
Persisted(f) == {i \in DOMAIN handlers[f] : handlers[f][i].stage \in {"written", "done"}}

\* C27: a run of authenticate() that reports a failure does not write the token
\* file, before or after the report: when the timer fires while the token
\* exchange is in flight, the flow reports the timeout and what the exchange
\* returns later is not saved.
C27_FailureWritesNothing ==
    \A f \in Flows : outcome[f].kind = "rejected" => Persisted(f) = {}

\* C28: authenticate() resolves only in the step that follows a saveToken() that
\* has written the record, and with that record; in a run that one callback
\* reaches, the token file holds the record when the success page is rendered.
\* When saveToken() throws, the handler renders the error page with the storage
\* error, closes the listener and rejects with the storage error, which is what
\* the caller gets unless the timer has reported the timeout before; that handler
\* does not report success.
C28_SuccessState ==
    \A f \in Flows :
        /\ outcome[f].kind = "resolved" =>
              \E i \in Persisted(f) :
                  /\ handlers[f][i].stage = "done"
                  /\ handlers[f][i].wrote
                  /\ outcome[f].value = handlers[f][i].tokenInfo
        /\ OnlyCallback(f) =>
              LET h == handlers[f][1]
              IN /\ h.stage = "done" =>
                      (Stored = [kind |-> "token", token |-> h.tokenInfo]
                       /\ outcome[f].kind # "pending")
                 /\ h.error.type = "storage" =>
                      /\ h.stage = "failed"
                      /\ ~listening[f]
                      /\ portOwner # f
                      /\ \/ outcome[f] = Rejected("storage", "")
                         \/ outcome[f] = Rejected("timeout", "") /\ timer[f].state = "fired"

C28_SaveFailureStep ==
    \A f \in Flows : \A i \in DOMAIN handlers[f] :
        SaveThrows(f, i)
        => /\ handlers'[f][i].stage = "failed"
           /\ handlers'[f][i].error.type = "storage"
           /\ ~listening'[f]
           /\ portOwner' # f
           /\ outcome[f] = Pending => outcome'[f] = Rejected("storage", "")
           /\ outcome[f] # Pending => outcome'[f] = outcome[f]

C28_ResolveStep ==
    \A f \in Flows :
        (outcome[f] = Pending /\ outcome'[f].kind = "resolved")
        => \E i \in DOMAIN handlers[f] :
              /\ handlers[f][i].stage = "written"
              /\ handlers'[f][i].stage = "done"
              /\ outcome'[f].value = handlers[f][i].tokenInfo

C28_SuccessAfterPersist ==
    /\ []C28_SuccessState
    /\ [][C28_SaveFailureStep]_vars
    /\ [][C28_ResolveStep]_vars

C28_Witness ==
    \E f \in Flows :
        /\ OnlyCallback(f)
        /\ handlers[f][1].error.type = "storage"
        /\ handlers[f][1].wrote
        /\ fileAtStart[f].exists
        /\ outcome[f] = Rejected("storage", "")
        /\ ~listening[f]

\* C29: in one run of authenticate() open(authUrl) is called at most once, and
\* only in a run whose listener was bound, in the step in which the listener is
\* bound and holds the port; and each token-exchange request was sent by a run
\* of the handler whose callback carried a code.
C29_LaunchState ==
    \A f \in Flows :
        /\ opened[f].calls <= 1
        /\ opened[f].calls = 1 => pc[f] = "serving"
        /\ pc[f] \in {"idle", "precondition_failed", "listen_tick", "error_tick", "bind_failed"}
              => (opened[f].calls = 0 /\ handlers[f] = <<>>)
        /\ \A i \in DOMAIN handlers[f] :
              handlers[f][i].requested > 0 => Truthy(handlers[f][i].query.code)

C29_LaunchStep ==
    \A f \in Flows :
        opened'[f] # opened[f]
        => /\ opened[f].calls = 0
           /\ opened'[f].calls = 1
           /\ pc[f] = "listen_tick"
           /\ listening[f]
           /\ portOwner = f
           /\ handlers[f] = <<>>

C29_ExchangeStep ==
    \A f \in Flows :
        Exchanges(f)' # Exchanges(f)
        => /\ Len(handlers'[f]) = Len(handlers[f]) + 1
           /\ Truthy(handlers'[f][Len(handlers'[f])].query.code)
           /\ opened[f].calls = 1

C29_LaunchOnceAfterBind ==
    /\ []C29_LaunchState
    /\ [][C29_LaunchStep]_vars
    /\ [][C29_ExchangeStep]_vars

C29_Witness ==
    \E f \in Flows : \E g \in Flows :
        /\ pc[g] = "bind_failed"
        /\ opened[g].calls = 0
        /\ opened[f].calls = 1
        /\ OnlyCallback(f)
        /\ handlers[f][1].requested = 1
        /\ handlers[f][1].query.code = "abc123"

\* C30: after authenticate() has resolved, its listener is closed no later than
\* one second after the success was reported, and from then on the flow does not
\* hold the port, which a new flow can bind; and a flow that has reported an
\* outcome, whichever it is, eventually does not hold the port.
C30_ClosedInTime ==
    \A f \in Flows :
        /\ (outcome[f].kind = "resolved" /\ (listening[f] \/ portOwner = f))
              => now <= settledAt[f] + CLOSE_DELAY_MS
        /\ outcome[f].kind = "rejected" => (~listening[f] /\ portOwner # f)

C30_PortReleased ==
    /\ []C30_ClosedInTime
    /\ \A f \in Flows :
          (outcome[f].kind # "pending") ~> (~listening[f] /\ portOwner # f)

C30_Witness ==
    \E f \in Flows : \E g \in Flows :
        /\ outcome[f].kind = "resolved"
        /\ handlers[f][1].closeTimer = Fired(settledAt[f] + CLOSE_DELAY_MS)
        /\ now = settledAt[f] + CLOSE_DELAY_MS
        /\ ~listening[f]
        /\ pc[g] = "serving"
        /\ portOwner = g
        /\ listening[g]

\* C31: once the promise of a run of authenticate() is resolved or rejected, no
\* later step changes it: not the end of another run of the callback handler, not
\* the 'error' event of the server, not the five-minute timer.
C31_OutcomeIsFinal ==
    [][\A f \in Flows :
         outcome[f] # Pending => (outcome'[f] = outcome[f] /\ settledAt'[f] = settledAt[f])
      ]_vars

\* the flow resolved, and after that a second run of the handler failed and the
\* five-minute timer fired
C31_Witness ==
    \E f \in Flows :
        /\ outcome[f].kind = "resolved"
        /\ Len(handlers[f]) = 2
        /\ handlers[f][1].stage = "done"
        /\ handlers[f][2].stage = "failed"
        /\ timer[f].state = "fired"
        /\ settledAt[f] < now

\* the methods that only read the token file
ReadOnlyOps == {"loadToken", "hasToken", "isTokenValid", "setToken", "getUserCheckins", "checkAuth"}
\* the token file, its inode and its permission bits
StoreContent == <<tokenFile, tokenIno, tokenMode>>

\* C32: the token file changes only in a step of saveToken() or deleteToken(); no
\* step of loadToken(), hasToken(), isTokenValid(), setToken(), getUserCheckins()
\* or checkAuth() changes it, whether the call returns or throws; and a call of
\* isTokenValid() that returns false for an expired record leaves the record in
\* the file.
C32_ReadersStep ==
    \A t \in Tasks :
        (task'[t].op \in ReadOnlyOps
            /\ (task'[t].op # task[t].op \/ task'[t].stage # task[t].stage))
        => StoreContent' = StoreContent

C32_ChangeStep ==
    StoreContent' # StoreContent
    => \E t \in Tasks :
          /\ task[t].op \in {"saveToken", "deleteToken"}
          /\ StoreOpen(t) \/ StoreWrite(t) \/ StoreUnlink(t)

C32_OnlySaveAndDeleteWrite == [][C32_ReadersStep /\ C32_ChangeStep]_vars

C32_Witness ==
    \E t \in Tasks :
        /\ task[t].op = "isTokenValid"
        /\ task[t].stage = "done"
        /\ task[t].result = Returned(FALSE)
        /\ Stored = [kind |-> "token",
                     token |-> [access_token |-> "S2", created_at |-> 1000, expires_in |-> 1]]
        /\ lastStoreOp = NoStoreOp
        /\ now = 3000

\* what a flow's caller and its browser see of it, and what it has done
FlowState(f) == <<listening[f], outcome[f], handlers[f], pc[f], timer[f]>>

\* C36: a run of authenticate() whose bind failed with address-in-use leaves the
\* other flows alone: the step that reports its failure and the step of its own
\* five-minute timer change no other flow's listener, outcome or handlers, leave
\* the port with its owner and leave the token file as it is; and the run itself
\* handles no request, so it never writes the token file.
C36_BindFailedState ==
    \A g \in Flows :
        pc[g] \in {"error_tick", "bind_failed"}
        => /\ handlers[g] = <<>>
           /\ ~listening[g]
           /\ portOwner # g

C36_BindFailedStep ==
    \A g \in Flows :
        (pc[g] \in {"error_tick", "bind_failed"} /\ (ServerError(g) \/ TimeoutFire(g)))
        => /\ \A f \in Flows \ {g} : FlowState(f)' = FlowState(f)
           /\ portOwner' = portOwner
           /\ tokenFile' = tokenFile

C36_BindFailureIsHarmless == []C36_BindFailedState /\ [][C36_BindFailedStep]_vars

\* the timer of the run that failed to bind has fired at its own deadline, which
\* is later than that of the flow that held the port; that flow's success and its
\* record are as they were
C36_Witness ==
    \E f \in Flows : \E g \in Flows :
        /\ pc[g] = "bind_failed"
        /\ outcome[g] = Rejected("address_in_use", "")
        /\ timer[g].state = "fired"
        /\ timer[g].at > timer[f].at
        /\ now = timer[g].at
        /\ outcome[f].kind = "resolved"
        /\ Stored = [kind |-> "token", token |-> outcome[f].value]

\* C37: getUserCheckins() returns the items exactly when its request was answered
\* with an OK status and meta.code 200; an answer with another status or another
\* meta.code makes it throw an API error; and a call that finds no token (no
\* token file and none held) throws without having sent a request.
C37_FetchStep ==
    \A t \in Tasks : \A response \in Responses :
        (FetchReturn(t, response) /\ task[t].op = "getUserCheckins")
        => /\ task[t].bearer # None
           /\ response = "ok" => task'[t].result = Returned("items")
           /\ response \in {"http_error", "meta_error"} => task'[t].result = Threw("api_error")
           /\ response # "ok" => task'[t].result.kind = "threw"

C37_NoTokenStep ==
    \A t \in Tasks :
        (StoreRead(t) /\ task[t].op = "getUserCheckins" /\ Stored.kind = "null")
        => /\ task'[t].result = Threw("not_authenticated")
           /\ task'[t].stage = "done"
           /\ task'[t].bearer = None

C37_ItemsState ==
    \A t \in Tasks :
        (task[t].op = "getUserCheckins" /\ task[t].stage = "done")
        => /\ task[t].result.kind = "returned" => task[t].bearer # None
           /\ task[t].bearer = None => task[t].result.kind = "threw"

C37_ItemsOnlyOnSuccess ==
    []C37_ItemsState /\ [][C37_FetchStep]_vars /\ [][C37_NoTokenStep]_vars

C37_Witness ==
    \E t \in Tasks :
        /\ task[t].op = "getUserCheckins"
        /\ task[t].stage = "done"
        /\ task[t].result = Threw("api_error")
        /\ task[t].bearer = "S1"
        /\ accessTokenFrom = "store"

\* C33: every record that a run of authenticate() builds and saves has no
\* expires_in property, and a call of isTokenValid() that finds such a record in
\* the token file returns true, at the time of the save and at every later time.
C33_NoExpiryWritten ==
    \A f \in Flows : \A i \in DOMAIN handlers[f] :
        handlers[f][i].stage \in {"saving", "writing", "written", "done"}
        => /\ DOMAIN handlers[f][i].tokenInfo = {"access_token", "created_at"}
           /\ i \in Persisted(f) /\ Writes(f) = {i}
                 => Stored = [kind |-> "token", token |-> handlers[f][i].tokenInfo]

C33_ValidStep ==
    \A t \in Tasks :
        (StoreRead(t) /\ task[t].op = "isTokenValid"
            /\ \E f \in Flows : \E i \in Persisted(f) :
                  Stored = [kind |-> "token", token |-> handlers[f][i].tokenInfo])
        => task'[t].result = Returned(TRUE)

C33_FlowRecordStaysValid == []C33_NoExpiryWritten /\ [][C33_ValidStep]_vars

\* isTokenValid() was called at the deadline of the timer, five minutes after the
\* flow saved its record at time 0, and returned true
C33_Witness ==
    \E t \in Tasks : \E f \in Flows :
        /\ outcome[f].kind = "resolved"
        /\ outcome[f].value.created_at = 0
        /\ Stored = [kind |-> "token", token |-> outcome[f].value]
        /\ timer[f].state = "armed"
        /\ now = TIMEOUT_MS
        /\ task[t].op = "isTokenValid"
        /\ task[t].stage = "done"
        /\ task[t].result = Returned(TRUE)

\* the calls of the three tools that have ended
Tools == {"authenticate", "check-auth-status", "get-user-checkins"}
ToolDone(t) == task[t].op \in Tools /\ task[t].stage = "done"

\* C34: when check-auth-status reports the token as valid with the environment
\* variable as its source, the token that checkAuth() sent is the value of
\* FOURSQUARE_ACCESS_TOKEN; and when that variable is set, the tool does not answer
\* 'token not found' for the lack of a token file.
C34_SourceState ==
    \A t \in Tasks :
        (ToolDone(t) /\ task[t].op = "check-auth-status")
        => /\ task[t].result = ToolText("valid_from_environment")
                 => task[t].bearer = envAccessToken
           /\ (Truthy(envAccessToken) /\ ~tokenFile.exists)
                 => task[t].result # ToolText("token_not_found")

C34_EnvironmentSourceIsProbed == []C34_SourceState

\* C35: no call of the three tool handlers ends with an exception: each ends with
\* a result { content }, and the result has isError set when the operation the
\* handler awaited failed: authenticate() rejected, the token file could not be
\* parsed, getUserCheckins() found no token, or the API answered with an error.
\* After every result, one with isError included, the next tool call is accepted.
C35_ResultState ==
    \A t \in Tasks :
        ToolDone(t)
        => /\ task[t].result.kind = "content"
           /\ task[t].result.isError \in BOOLEAN
           /\ ENABLED CheckAuthStatusToolCall(t)
           /\ ENABLED CheckinsToolCall(t)

C35_FlowFailureStep ==
    \A t \in Tasks :
        (AuthenticateToolReturn(t) /\ outcome[t].kind = "rejected")
        => task'[t].result = ToolError(outcome[t].error.type)

C35_CorruptFileStep ==
    \A t \in Tasks :
        ((ToolHasTokenRead(t) \/ ToolCheckAuthRead(t) \/ ToolCheckinsRead(t))
            /\ Stored.kind = "throws")
        => /\ task'[t].stage = "done"
           /\ task'[t].result = ToolError("SyntaxError")

C35_MissingTokenStep ==
    \A t \in Tasks :
        (ToolCheckinsRead(t) /\ Stored.kind = "null")
        => /\ task'[t].stage = "done"
           /\ task'[t].result = ToolError("not_authenticated")

C35_ApiErrorStep ==
    \A t \in Tasks : \A response \in Responses :
        (ToolCheckinsFetch(t, response) /\ response # "ok")
        => /\ task'[t].result.kind = "content"
           /\ task'[t].result.isError

C35_ToolsNeverThrow ==
    /\ []C35_ResultState
    /\ [][C35_FlowFailureStep]_vars
    /\ [][C35_CorruptFileStep]_vars
    /\ [][C35_MissingTokenStep]_vars
    /\ [][C35_ApiErrorStep]_vars

\* a tool call that ended with isError for a token file that cannot be parsed,
\* after an authenticate call that ended with isError as well
C35_Witness ==
    \E t \in Tasks :
        /\ ToolDone(t)
        /\ task[t].op = "get-user-checkins"
        /\ task[t].result = ToolError("SyntaxError")
        /\ outcome[t].kind = "rejected"

====
